---- MODULE Spec2Model ----
(***************************************************************************)
(* Model of the WindWatts energy production engine                         *)
(* (windwatts-api/app/power_curve/power_curve_manager.py and the           *)
(* configuration and validation modules it uses).                          *)
(*                                                                         *)
(* Numbers.  A float64 is a record [fin, v]: a finite value carries an     *)
(* integer v, NaN and +inf are the two non-finite values.  Wind speeds are *)
(* counted in units of 5e-6 m/s, so that eps = 1e-5 is Eps = 2 units and   *)
(* an input may lie strictly between two multiples of eps.  Probabilities  *)
(* are counted in units of 1/PScale.  A float division is the integer      *)
(* division of the scaled values.                                          *)
(***************************************************************************)
EXTENDS Integers, Sequences, FiniteSets, TLC

VARIABLES
    heap,      \* the objects that outlive a call: the caller's input, the registries
    pc,        \* position of the call in progress: idle, fit1, jitter, fit2, done
    op,        \* the operation called last: none, smooth, jitter, compute
    args,      \* the arguments of that call
    ret,       \* what the call returned or raised
    fits,      \* smooth: number of spline fits attempted in this call
    jitters,   \* smooth: number of jitter passes made in this call
    exc1,      \* smooth: the exception of the first fit ("none" when it succeeded)
    q_fix      \* smooth: the jittered quantiles

vars == <<heap, pc, op, args, ret, fits, jitters, exc1, q_fix>>

(***************************************************************************)
(* Bounds of the model                                                     *)
(***************************************************************************)
\* longest quantile array handed to smooth and to the jitter pass
MaxLen == 3
\* largest finite wind speed value (in units) of those arrays
MaxVal == 3
\* M1 and M2 of compute's calls of smooth: the defaults 1000 and 501, scaled
M1Default == 5
M2Default == 4

(***************************************************************************)
(* float64                                                                 *)
(***************************************************************************)
Fin(n) == [fin |-> TRUE, v |-> n]
NaN == [fin |-> FALSE, v |-> 0]
PosInf == [fin |-> FALSE, v |-> 1]
isfinite(x) == x.fin

\* eps = 1e-5 in units of 5e-6
Eps == 2
\* the probability 1.0 in units of 1/PScale
PScale == 12

Abs(n) == IF n < 0 THEN -n ELSE n
AllFinite(s) == \A i \in 1..Len(s) : isfinite(s[i])
Vals(s) == [i \in 1..Len(s) |-> s[i].v]
Floats(s) == [i \in 1..Len(s) |-> Fin(s[i])]
SeqsUpTo(S, n) == UNION {[1..k -> S] : k \in 0..n}

\* np.linspace(lo, hi, n) on integers: n points, both ends included
linspace(lo, hi, n) ==
    [i \in 1..n |-> IF n = 1 THEN lo ELSE lo + ((i - 1) * (hi - lo)) \div (n - 1)]

\* np.zeros_like(probs_new)
zeros_like(s) == [i \in 1..Len(s) |-> 0]

(***************************************************************************)
(* PowerCurveManager._jitter_nonincreasing                                 *)
(***************************************************************************)
RECURSIVE JitterFrom(_, _, _)
JitterFrom(q, i, eps) ==
    IF i > Len(q) THEN q
    ELSE IF ~isfinite(q[i]) \/ ~isfinite(q[i - 1]) THEN JitterFrom(q, i + 1, eps)
    ELSE IF q[i].v <= q[i - 1].v
         THEN JitterFrom([q EXCEPT ![i] = Fin(q[i - 1].v + eps)], i + 1, eps)
         ELSE JitterFrom(q, i + 1, eps)

\* the mutant compares with the uncorrected predecessor
RECURSIVE JitterFromStale(_, _, _, _)
JitterFromStale(q0, q, i, eps) ==
    IF i > Len(q) THEN q
    ELSE IF ~isfinite(q[i]) \/ ~isfinite(q[i - 1]) THEN JitterFromStale(q0, q, i + 1, eps)
    ELSE IF q0[i].v <= q0[i - 1].v
         THEN JitterFromStale(q0, [q EXCEPT ![i] = Fin(q0[i - 1].v + eps)], i + 1, eps)
         ELSE JitterFromStale(q0, q, i + 1, eps)

jitter_stale_predecessor(q, eps) == JitterFromStale(q, q, 2, eps)

\* the mutant is the running maximum q[i] = max(q[i], q[i-1] + eps)
RECURSIVE RunningMaxFrom(_, _, _)
RunningMaxFrom(q, i, eps) ==
    IF i > Len(q) THEN q
    ELSE IF ~isfinite(q[i]) \/ ~isfinite(q[i - 1]) THEN RunningMaxFrom(q, i + 1, eps)
    ELSE IF q[i].v < q[i - 1].v + eps
         THEN RunningMaxFrom([q EXCEPT ![i] = Fin(q[i - 1].v + eps)], i + 1, eps)
         ELSE RunningMaxFrom(q, i + 1, eps)

jitter_running_max(q, eps) == RunningMaxFrom(q, 2, eps)

\* the mutant hands the array back as it came
jitter_skipped(q, eps) == q

jitter_nonincreasing(q, eps) == JitterFrom(q, 2, eps)

(***************************************************************************)
(* scipy's CubicSpline as run_cubic uses it: what it refuses, and its      *)
(* values on the dense grid.  The spline passes through the knots; between *)
(* two knots the model takes the chord.                                    *)
(***************************************************************************)
StrictlyIncreasing(s) == \A i \in 1..(Len(s) - 1) : s[i].v < s[i + 1].v

CubicSplineRefuses(x, y) ==
    \/ Len(x) < 2
    \/ Len(x) # Len(y)
    \/ ~AllFinite(x)
    \/ ~AllFinite(y)
    \/ ~StrictlyIncreasing(x)

\* the knot interval holding xs: the last k with x[k] <= xs, at most Len(x) - 1
Segment(x, xs) ==
    LET ks == {k \in 1..(Len(x) - 1) : x[k] <= xs}
    IN  CHOOSE k \in ks : \A j \in ks : j <= k

SplineAt(x, y, xs) ==
    LET k == Segment(x, xs)
    IN  y[k] + ((y[k + 1] - y[k]) * (xs - x[k])) \div (x[k + 1] - x[k])

(***************************************************************************)
(* PowerCurveManager.find_inverse                                          *)
(***************************************************************************)
\* np.argmin: the first index of a minimum
argmin(d) == CHOOSE j \in 1..Len(d) :
                 /\ \A k \in 1..Len(d) : d[j] <= d[k]
                 /\ \A k \in 1..(j - 1) : d[k] > d[j]

\* the mutant takes the minimum along the other axis: one value per sample
find_inverse_other_axis(x_smooth, y_smooth, y_hat) ==
    [j \in 1..Len(y_smooth) |->
        x_smooth[argmin([i \in 1..Len(y_hat) |-> Abs(y_smooth[j] - y_hat[i])])]]

find_inverse(x_smooth, y_smooth, y_hat) ==
    [i \in 1..Len(y_hat) |->
        x_smooth[argmin([j \in 1..Len(y_smooth) |-> Abs(y_smooth[j] - y_hat[i])])]]

(***************************************************************************)
(* PowerCurveManager.run_cubic: [ok, exc, q_new, probs_new]                *)
(***************************************************************************)
Raise(e) == [ok |-> FALSE, exc |-> e, q_new |-> <<>>, probs_new |-> <<>>]

run_cubic(x, y, probs_new, M1) ==
    IF Len(y) < 2 \/ Len(x) < 2 THEN Raise("IndexError")
    ELSE IF CubicSplineRefuses(x, y) THEN Raise("ValueError")
    ELSE LET xv == Vals(x)
             yv == Vals(y)
             x_smooth == linspace(xv[1], xv[Len(xv)], M1)
             y_smooth == [j \in 1..M1 |-> SplineAt(xv, yv, x_smooth[j])]
         IN  [ok |-> TRUE, exc |-> "none",
              q_new |-> find_inverse(x_smooth, y_smooth, probs_new),
              probs_new |-> probs_new]

(***************************************************************************)
(* The except clauses of estimation_quantiles_SWI.  Every exception that   *)
(* run_cubic can raise is a subclass of Exception.                         *)
(***************************************************************************)
ExceptionSubclasses == {"ValueError", "ZeroDivisionError", "IndexError"}

\* the mutant has no catch-all clause after the first attempt
except_first_narrow(exc) ==
    IF exc \in {"ValueError", "ZeroDivisionError"} THEN "fallback" ELSE "propagate"

\* the mutant retries after every exception of the first attempt
except_first_retry_all(exc) ==
    IF exc \in ExceptionSubclasses THEN "fallback" ELSE "propagate"

\* lines 200-204: what the handlers of the first attempt do with exc
except_first(exc) ==
    IF exc \in {"ValueError", "ZeroDivisionError"} THEN "fallback"
    ELSE IF exc \in ExceptionSubclasses THEN "default"
    ELSE "propagate"

\* lines 209-211: the handler of the second attempt
except_second(exc) ==
    IF exc \in ExceptionSubclasses THEN "default" ELSE "propagate"

(***************************************************************************)
(* PowerCurveManager.estimation_quantiles_SWI, as one function:            *)
(* [raised, exc, quantiles_new, probs_new, outcome]                        *)
(***************************************************************************)
SmoothReturn(qn, pn, o) ==
    [raised |-> FALSE, exc |-> "none", quantiles_new |-> qn, probs_new |-> pn,
     outcome |-> o]

SmoothRaise(e) ==
    [raised |-> TRUE, exc |-> e, quantiles_new |-> <<>>, probs_new |-> <<>>,
     outcome |-> "Raised"]

\* lines 208-211: what becomes of the second attempt r2
second_attempt(r2, probs_new) ==
    IF r2.ok THEN SmoothReturn(r2.q_new, r2.probs_new, "JitteredAndSmoothed")
    ELSE IF except_second(r2.exc) = "default"
    THEN SmoothReturn(zeros_like(probs_new), probs_new, "DegradedZero")
    ELSE SmoothRaise(r2.exc)

\* lines 198-207: what becomes of the first attempt r1
first_attempt(r1, quantiles, probs, probs_new, M1) ==
    IF r1.ok THEN SmoothReturn(r1.q_new, r1.probs_new, "Smoothed")
    ELSE IF except_first(r1.exc) = "default"
    THEN SmoothReturn(zeros_like(probs_new), probs_new, "DegradedZero")
    ELSE IF except_first(r1.exc) = "propagate" THEN SmoothRaise(r1.exc)
    ELSE second_attempt(run_cubic(jitter_nonincreasing(quantiles, Eps), probs, probs_new, M1),
                        probs_new)

estimation_quantiles_SWI(quantiles, probs, M1, M2) ==
    first_attempt(run_cubic(quantiles, probs, linspace(0, PScale, M2), M1),
                  quantiles, probs, linspace(0, PScale, M2), M1)

(***************************************************************************)
(* config/model_config.py                                                  *)
(***************************************************************************)
\* the mutant declares no probability column for the atemporal quantiles
TEMPORAL_SCHEMAS_no_probability ==
    [full_hourly |->
        [temporal_columns |-> <<"time">>, probability_columns |-> <<>>,
         temporal_dimensions |-> <<"year", "month", "day", "hour">>,
         encoding |-> "datetime_full", use_swi |-> FALSE],
     aggregated_mohr |->
        [temporal_columns |-> <<"mohr", "year">>, probability_columns |-> <<>>,
         temporal_dimensions |-> <<"month", "hour", "year">>,
         encoding |-> "mohr_encoded", use_swi |-> FALSE],
     quantile_yearly |->
        [temporal_columns |-> <<"year">>, probability_columns |-> <<"probability">>,
         temporal_dimensions |-> <<"year">>,
         encoding |-> "None", use_swi |-> TRUE],
     quantile_atemporal |->
        [temporal_columns |-> <<>>, probability_columns |-> <<>>,
         temporal_dimensions |-> <<>>,
         encoding |-> "None", use_swi |-> FALSE]]

TEMPORAL_SCHEMAS ==
    [full_hourly |->
        [temporal_columns |-> <<"time">>, probability_columns |-> <<>>,
         temporal_dimensions |-> <<"year", "month", "day", "hour">>,
         encoding |-> "datetime_full", use_swi |-> FALSE],
     aggregated_mohr |->
        [temporal_columns |-> <<"mohr", "year">>, probability_columns |-> <<>>,
         temporal_dimensions |-> <<"month", "hour", "year">>,
         encoding |-> "mohr_encoded", use_swi |-> FALSE],
     quantile_yearly |->
        [temporal_columns |-> <<"year">>, probability_columns |-> <<"probability">>,
         temporal_dimensions |-> <<"year">>,
         encoding |-> "None", use_swi |-> TRUE],
     quantile_atemporal |->
        [temporal_columns |-> <<>>, probability_columns |-> <<"probability">>,
         temporal_dimensions |-> <<>>,
         encoding |-> "None", use_swi |-> FALSE]]

\* the grid of era5: degrees in units of 1e-6
Era5Grid ==
    [min_lat |-> 23402000, min_long |-> -137725000, max_lat |-> 51403000, max_long |-> -44224000]
WtkGrid ==
    [min_lat |-> 7751290, min_long |-> -179999180, max_lat |-> 78392685, max_long |-> 180000000]

MODEL_CONFIG ==
    [m \in {"era5-quantiles", "wtk-timeseries", "ensemble-quantiles", "era5-timeseries"} |->
        [schema |-> CASE m = "era5-quantiles" -> "quantile_yearly"
                      [] m = "wtk-timeseries" -> "aggregated_mohr"
                      [] m = "ensemble-quantiles" -> "quantile_atemporal"
                      [] m = "era5-timeseries" -> "full_hourly",
         source |-> IF m = "era5-timeseries" THEN "s3" ELSE "athena",
         heights |-> IF m = "wtk-timeseries" THEN <<40, 60, 80, 100, 120, 140, 160, 200>>
                     ELSE <<30, 40, 50, 60, 80, 100>>,
         grid_info |-> IF m = "wtk-timeseries" THEN WtkGrid ELSE Era5Grid]]

\* TEMPORAL_SCHEMAS[schema]["period_type"]
period_type ==
    [full_hourly |->
        [windspeed |-> <<>>, production |-> <<>>,
         timeseries_export |-> <<"hourly", "monthly">>],
     aggregated_mohr |->
        [windspeed |-> <<"all", "annual", "monthly", "hourly">>,
         production |-> <<"all", "summary", "annual", "monthly", "full">>,
         timeseries_export |-> <<>>],
     quantile_yearly |->
        [windspeed |-> <<"all", "annual">>,
         production |-> <<"all", "summary", "annual", "full">>,
         timeseries_export |-> <<>>],
     quantile_atemporal |->
        [windspeed |-> <<"all">>, production |-> <<"all">>, timeseries_export |-> <<>>]]

SchemaNames == DOMAIN TEMPORAL_SCHEMAS
ModelNames == DOMAIN MODEL_CONFIG

Elems(s) == {s[i] : i \in 1..Len(s)}

(***************************************************************************)
(* Exceptions: the Python class and the name the design gives the failure  *)
(***************************************************************************)
Error(exc, name) == [exc |-> exc, name |-> name]
NoError == Error("none", "none")

(***************************************************************************)
(* pandas.DataFrame: the column labels in order, and the rows, each a      *)
(* function from the labels to the cell                                    *)
(***************************************************************************)
\* a null cell of a year column (None, NaN)
NoYear == 0
DataFrame(cols, rows) == [none |-> FALSE, cols |-> cols, rows |-> rows]
\* df = None
NoneDf == [none |-> TRUE, cols |-> <<>>, rows |-> <<>>]
\* pd.DataFrame()
EmptyDataFrame == DataFrame(<<>>, <<>>)

columns(df) == Elems(df.cols)
\* df.empty: no row or no column
empty(df) == Len(df.rows) = 0 \/ Len(df.cols) = 0
\* df[c].to_numpy()
Column(df, c) == [i \in 1..Len(df.rows) |-> df.rows[i][c]]

\* str.lower() on the labels of the model
Lower(c) == IF c = "Year" THEN "year" ELSE c
\* df.columns.str.lower()
columns_lower(df) == {Lower(c) : c \in columns(df)}

\* df[c] = vals: a new label goes last, a present one keeps its place
SetColumn(df, c, vals) ==
    DataFrame(IF c \in columns(df) THEN df.cols ELSE Append(df.cols, c),
              [i \in 1..Len(df.rows) |->
                  [x \in columns(df) \cup {c} |->
                      IF x = c THEN vals[i] ELSE df.rows[i][x]]])

\* df[cols]
Select(df, cols) ==
    DataFrame(cols, [i \in 1..Len(df.rows) |-> [x \in Elems(cols) |-> df.rows[i][x]]])

\* the elements of a finite set of integers in ascending order
RECURSIVE Ascending(_)
Ascending(S) ==
    IF S = {} THEN <<>>
    ELSE LET lo == CHOOSE a \in S : \A b \in S : a <= b
         IN  <<lo>> \o Ascending(S \ {lo})

RECURSIVE Flatten(_)
Flatten(ss) == IF ss = <<>> THEN <<>> ELSE Head(ss) \o Flatten(Tail(ss))

\* sort_values(key): ascending, rows with equal keys keep their order
RECURSIVE InsertByKey(_, _, _)
InsertByKey(sorted, r, key) ==
    IF sorted = <<>> THEN <<r>>
    ELSE IF Head(sorted)[key] <= r[key]
         THEN <<Head(sorted)>> \o InsertByKey(Tail(sorted), r, key)
         ELSE <<r>> \o sorted

RECURSIVE SortRows(_, _)
SortRows(rows, key) ==
    IF rows = <<>> THEN <<>>
    ELSE InsertByKey(SortRows(SubSeq(rows, 1, Len(rows) - 1), key), rows[Len(rows)], key)

\* the mutant leaves the rows in the order of the input
sort_values_forgotten(df, key) == df

sort_values(df, key) == DataFrame(df.cols, SortRows(df.rows, key))

(***************************************************************************)
(* utils/validation.py: validate_data_with_temporal_schema                 *)
(***************************************************************************)
TemporalNames == <<"year", "month", "day", "hour", "time", "mohr">>

\* the mutant matches the required columns by their exact label
validate_case_sensitive(df, schema) ==
    LET column_config == TEMPORAL_SCHEMAS[schema]
        required_cols == column_config.temporal_columns \o column_config.probability_columns
        missing_cols == SelectSeq(required_cols, LAMBDA col : col \notin columns(df))
        temporal_cols == SelectSeq(TemporalNames, LAMBDA col : col \in columns(df))
    IN  IF missing_cols # <<>> THEN Error("ValueError", "SchemaMismatch")
        ELSE IF column_config.temporal_columns = <<>> /\ temporal_cols # <<>>
        THEN Error("ValueError", "SchemaMismatch")
        ELSE NoError

validate_data_with_temporal_schema(df, schema) ==
    LET column_config == TEMPORAL_SCHEMAS[schema]
        df_cols == columns_lower(df)
        required_cols == column_config.temporal_columns \o column_config.probability_columns
        missing_cols == SelectSeq(required_cols, LAMBDA col : Lower(col) \notin df_cols)
        temporal_cols == SelectSeq(TemporalNames, LAMBDA col : col \in df_cols)
    IN  IF missing_cols # <<>> THEN Error("ValueError", "SchemaMismatch")
        ELSE IF column_config.temporal_columns = <<>> /\ temporal_cols # <<>>
        THEN Error("ValueError", "SchemaMismatch")
        ELSE NoError

(***************************************************************************)
(* PowerCurveManager._add_temporal_dimensions: [err, df]                   *)
(***************************************************************************)
\* a time cell is the number YYYYMMDDHH; pd.to_datetime(errors="coerce")
\* gives a timestamp, or NaT when the cell is no date
IsLeap(y) == (y % 4 = 0 /\ y % 100 # 0) \/ y % 400 = 0
DaysInMonth(y, m) ==
    IF m = 2 THEN (IF IsLeap(y) THEN 29 ELSE 28)
    ELSE IF m \in {4, 6, 9, 11} THEN 30 ELSE 31
NaT == [valid |-> FALSE, year |-> 0, month |-> 0, day |-> 0, hour |-> 0]
to_datetime(cell) ==
    LET y == cell \div 1000000
        m == (cell \div 10000) % 100
        d == (cell \div 100) % 100
        h == cell % 100
    IN  IF cell > 0 /\ m \in 1..12 /\ d \in 1..DaysInMonth(y, m) /\ h \in 0..23
        THEN [valid |-> TRUE, year |-> y, month |-> m, day |-> d, hour |-> h]
        ELSE NaT

Normalized(df) == [err |-> NoError, df |-> df]
NormalizeRaise(e) == [err |-> e, df |-> EmptyDataFrame]

\* result[dim] = vals[dim] for the requested dimensions, in the order of the code
RECURSIVE SetDimensions(_, _, _, _)
SetDimensions(df, dims, wanted, vals) ==
    IF dims = <<>> THEN df
    ELSE IF Head(dims) \in wanted
         THEN SetDimensions(SetColumn(df, Head(dims), vals[Head(dims)]),
                            Tail(dims), wanted, vals)
         ELSE SetDimensions(df, Tail(dims), wanted, vals)

\* the mutant returns the table as it came
add_temporal_dimensions_skipped(df, schema) == Normalized(df)

add_temporal_dimensions(df, schema) ==
    LET config == TEMPORAL_SCHEMAS[schema]
        temporal_dimensions == Elems(config.temporal_dimensions)
        encoding == config.encoding
    IN  IF temporal_dimensions = {} THEN Normalized(df)
        ELSE IF \A temp_col \in temporal_dimensions : temp_col \in columns_lower(df)
        THEN Normalized(df)
        ELSE IF encoding = "datetime_full"
        THEN IF "time" \notin columns(df) THEN NormalizeRaise(Error("KeyError", "pandas"))
             ELSE LET time == [i \in 1..Len(df.rows) |-> to_datetime(df.rows[i]["time"])]
                      vals == [dim \in {"year", "month", "hour", "day"} |->
                                  [i \in 1..Len(time) |-> time[i][dim]]]
                      derived == SetDimensions(df, <<"year", "month", "hour", "day">>,
                                               temporal_dimensions, vals)
                  IN  \* astype(int) refuses the NaN of a NaT
                      IF \E i \in 1..Len(time) : ~time[i].valid
                      THEN NormalizeRaise(Error("ValueError", "IntCastingNaNError"))
                      ELSE Normalized(SetColumn(derived, "time", time))
        ELSE IF encoding = "mohr_encoded"
        THEN IF "mohr" \notin columns(df) THEN NormalizeRaise(Error("KeyError", "pandas"))
             ELSE LET mohr == Column(df, "mohr")
                      vals == [dim \in {"month", "hour"} |->
                                  [i \in 1..Len(mohr) |->
                                      IF dim = "month" THEN mohr[i] \div 100
                                      ELSE mohr[i] % 100]]
                  IN  Normalized(SetDimensions(df, <<"month", "hour">>,
                                               temporal_dimensions, vals))
        ELSE NormalizeRaise(Error("ValueError", "ConfigurationError"))

(***************************************************************************)
(* The power curves.  A loaded curve maps a wind speed to kW: zero below   *)
(* the cut-in speed, the rated power from the rated speed on, and the      *)
(* chord in between.                                                       *)
(***************************************************************************)
\* 1 m/s in units of 5e-6 m/s
UnitsPerMs == 200000
Ms(n) == n * UnitsPerMs

\* self.power_curves after load_power_curves: the rated power of each curve
power_curves == [c \in {"nlr-reference-100kW", "nlr-reference-20kW"} |->
                    IF c = "nlr-reference-100kW" THEN 100 ELSE 20]
CutIn == Ms(3)
Rated == Ms(12)

\* PowerCurve.windspeed_to_kw for one wind speed
windspeed_to_kw(curve, ws) ==
    IF ws < CutIn THEN 0
    ELSE IF ws >= Rated THEN power_curves[curve]
    ELSE ((ws - CutIn) * power_curves[curve]) \div (Rated - CutIn)

(***************************************************************************)
(* PowerCurveManager._quantiles_to_kw_midpoints                            *)
(***************************************************************************)
WsCol(height) == "windspeed_" \o ToString(height) \o "m"
KwCol(ws_col) == ws_col \o "_kw"

\* qs.shift(-1): each element replaced by its successor, the last by NaN
shift_back(qs) == [i \in 1..Len(qs) |-> IF i < Len(qs) THEN qs[i + 1] ELSE NaN]
\* (a + b) / 2 on float64
half_sum(a, b) == IF isfinite(a) /\ isfinite(b) THEN Fin((a.v + b.v) \div 2) ELSE NaN
\* iloc[:-1]
drop_last(s) == SubSeq(s, 1, Len(s) - 1)

\* the mutant does not halve the sum
midpoints_not_halved(q_est) ==
    LET qs == Floats(q_est)
        shifted == shift_back(qs)
    IN  Vals(drop_last([i \in 1..Len(qs) |->
                           IF isfinite(shifted[i]) THEN Fin(shifted[i].v + qs[i].v)
                           ELSE NaN]))

\* lines 233-235
midpoints(q_est) ==
    LET qs == Floats(q_est)
        shifted == shift_back(qs)
    IN  Vals(drop_last([i \in 1..Len(qs) |-> half_sum(shifted[i], qs[i])]))

\* the mutant makes the probabilities strictly increasing by the jitter pass
distribution_probs_jittered(df_sorted, ws_col) ==
    [probs |-> Vals(jitter_nonincreasing(Floats(Column(df_sorted, "probability")), 1)),
     quants |-> Column(df_sorted, ws_col)]

\* lines 225-226: the distribution of a group, as the smoothing and the
\* binning get it
distribution(df_sorted, ws_col) ==
    [probs |-> Column(df_sorted, "probability"), quants |-> Column(df_sorted, ws_col)]

\* the mutant smooths whatever the schema says
quantile_estimate_always_swi(d, use_swi) ==
    estimation_quantiles_SWI(Floats(d.quants), Floats(d.probs),
                             M1Default, M2Default).quantiles_new

\* lines 228-231: the quantiles of the distribution d, smoothed on demand
quantile_estimate(d, use_swi) ==
    IF use_swi
    THEN estimation_quantiles_SWI(Floats(d.quants), Floats(d.probs),
                                  M1Default, M2Default).quantiles_new
    ELSE d.quants

\* lines 236-240: the table of the midpoints and their power
midpoint_table(ws_col, power_curve, mids) ==
    DataFrame(<<ws_col, KwCol(ws_col)>>,
              [i \in 1..Len(mids) |->
                  [c \in {ws_col, KwCol(ws_col)} |->
                      IF c = ws_col THEN mids[i]
                      ELSE windspeed_to_kw(power_curve, mids[i])]])

quantiles_to_kw_midpoints(df_sorted, ws_col, power_curve, use_swi) ==
    midpoint_table(ws_col, power_curve,
                   midpoints(quantile_estimate(distribution(df_sorted, ws_col), use_swi)))

(***************************************************************************)
(* The schema predicates                                                   *)
(***************************************************************************)
\* the mutant looks for the time column only
is_timeseries_schema_time_only(schema) ==
    "time" \in Elems(TEMPORAL_SCHEMAS[schema].temporal_columns)

is_timeseries_schema(schema) ==
    \/ "time" \in Elems(TEMPORAL_SCHEMAS[schema].temporal_columns)
    \/ "mohr" \in Elems(TEMPORAL_SCHEMAS[schema].temporal_columns)

is_quantile_schema(schema) ==
    "probability" \in Elems(TEMPORAL_SCHEMAS[schema].probability_columns)

has_year_dimension(schema) ==
    "year" \in Elems(TEMPORAL_SCHEMAS[schema].temporal_columns)

use_swi_for(schema) == TEMPORAL_SCHEMAS[schema].use_swi

(***************************************************************************)
(* PowerCurveManager.compute_energy_production_df:                         *)
(* [raised, err, shape, df, schema, branch, kw_calls]                      *)
(* shape says what a normal return hands back: the pair (df, schema), or   *)
(* the bare df.  kw_calls counts the calls of windspeed_to_kw.             *)
(***************************************************************************)
ComputeRaise(e) ==
    [raised |-> TRUE, err |-> e, shape |-> "none", df |-> NoneDf, schema |-> "none",
     branch |-> "none", kw_calls |-> 0]
ComputeReturnBare(df) ==
    [raised |-> FALSE, err |-> NoError, shape |-> "bare", df |-> df, schema |-> "none",
     branch |-> "none", kw_calls |-> 0]
ComputeReturnPair(df, schema, branch, n) ==
    [raised |-> FALSE, err |-> NoError, shape |-> "pair", df |-> df, schema |-> schema,
     branch |-> branch, kw_calls |-> n]

\* isinstance(heights, int): heights = [heights]
HeightList(heights) == IF heights.is_int THEN <<heights.value>> ELSE heights.list

\* pd.concat(dfs, axis=1) of frames with the same number of rows
RECURSIVE concat_columns(_)
concat_columns(dfs) ==
    IF dfs = <<>> THEN EmptyDataFrame
    ELSE IF Len(dfs) = 1 THEN dfs[1]
    ELSE LET a == dfs[1]
             b == concat_columns(Tail(dfs))
         IN  DataFrame(a.cols \o b.cols,
                       [i \in 1..Len(a.rows) |->
                           [x \in columns(a) \cup columns(b) |->
                               IF x \in columns(a) THEN a.rows[i][x] ELSE b.rows[i][x]]])

\* pd.concat(records, ignore_index=True) of frames with the same columns
concat_rows(dfs) ==
    IF dfs = <<>> THEN EmptyDataFrame
    ELSE DataFrame(dfs[1].cols, Flatten([i \in 1..Len(dfs) |-> dfs[i].rows]))

\* lines 367-369: one kW column per requested height
RECURSIVE add_kw_columns(_, _, _)
add_kw_columns(result, ws_cols, power_curve) ==
    IF ws_cols = <<>> THEN result
    ELSE add_kw_columns(
             SetColumn(result, KwCol(Head(ws_cols)),
                       [i \in 1..Len(result.rows) |->
                           windspeed_to_kw(power_curve, result.rows[i][Head(ws_cols)])]),
             Tail(ws_cols), power_curve)

\* lines 393-402 and 424-433: the bins of every requested height, side by side
group_bins(group_sorted, ws_cols, power_curve, use_swi) ==
    concat_columns([k \in 1..Len(ws_cols) |->
        quantiles_to_kw_midpoints(Select(group_sorted, <<"probability", ws_cols[k]>>),
                                  ws_cols[k], power_curve, use_swi)])

\* for h in heights: cols.extend([ws_col, ws_col_kw])
RECURSIVE ws_kw_pairs(_)
ws_kw_pairs(ws_cols) ==
    IF ws_cols = <<>> THEN <<>>
    ELSE <<Head(ws_cols), KwCol(Head(ws_cols))>> \o ws_kw_pairs(Tail(ws_cols))

\* lines 380-381, 417-418 and 443-444: if relevant_columns_only: result = result[cols]
select_relevant(result, cols, relevant_columns_only) ==
    IF relevant_columns_only THEN Select(result, cols) ELSE result

\* lines 371-379: the temporal columns present, the wind speeds, the powers
timeseries_columns(result, ws_cols) ==
    SelectSeq(<<"time", "year", "month", "day", "hour", "mohr">>,
              LAMBDA c : c \in columns(result))
        \o ws_cols \o [k \in 1..Len(ws_cols) |-> KwCol(ws_cols[k])]

\* line 404: result_df["year"] = year
with_year(result_df, year) ==
    SetColumn(result_df, "year", [i \in 1..Len(result_df.rows) |-> year])

\* the mutant returns the whole table whatever relevant_columns_only says
compute_timeseries_unpruned(df_with_temporal, ws_cols, power_curve, schema, relevant_columns_only) ==
    ComputeReturnPair(add_kw_columns(df_with_temporal, ws_cols, power_curve),
                      schema, "timeseries", Len(ws_cols))

\* lines 365-381
compute_timeseries(df_with_temporal, ws_cols, power_curve, schema, relevant_columns_only) ==
    LET result == add_kw_columns(df_with_temporal, ws_cols, power_curve)
    IN  ComputeReturnPair(select_relevant(result, timeseries_columns(result, ws_cols),
                                          relevant_columns_only),
                          schema, "timeseries", Len(ws_cols))

\* lines 386-418
compute_quantile_yearly(df_with_temporal, ws_cols, power_curve, schema, relevant_columns_only) ==
    IF "year" \notin columns(df_with_temporal) THEN ComputeRaise(Error("KeyError", "pandas"))
    ELSE
    LET years == Ascending({df_with_temporal.rows[i]["year"] :
                               i \in 1..Len(df_with_temporal.rows)})
        record(year) ==
            LET group == DataFrame(df_with_temporal.cols,
                                   SelectSeq(df_with_temporal.rows,
                                             LAMBDA r : r["year"] = year))
                group_sorted == sort_values(group, "probability")
            IN  with_year(group_bins(group_sorted, ws_cols, power_curve, use_swi_for(schema)),
                          year)
    IN  ComputeReturnPair(select_relevant(
                              concat_rows([k \in 1..Len(years) |-> record(years[k])]),
                              <<"year">> \o ws_kw_pairs(ws_cols), relevant_columns_only),
                          schema, "quantile", Len(years) * Len(ws_cols))

\* lines 420-444
compute_quantile_atemporal(df_with_temporal, ws_cols, power_curve, schema, relevant_columns_only) ==
    LET group_sorted == sort_values(df_with_temporal, "probability")
    IN  ComputeReturnPair(select_relevant(
                              group_bins(group_sorted, ws_cols, power_curve,
                                         use_swi_for(schema)),
                              ws_kw_pairs(ws_cols), relevant_columns_only),
                          schema, "quantile", Len(ws_cols))

\* lines 358-444: what follows the validation of the table
compute_normalized(normalized, ws_cols, selected_power_curve, schema, relevant_columns_only) ==
    IF normalized.err # NoError THEN ComputeRaise(normalized.err)
    ELSE IF selected_power_curve \notin DOMAIN power_curves
    THEN ComputeRaise(Error("KeyError", "UnknownPowerCurve"))
    ELSE IF is_timeseries_schema(schema)
    THEN compute_timeseries(normalized.df, ws_cols, selected_power_curve,
                            schema, relevant_columns_only)
    ELSE IF is_quantile_schema(schema)
    THEN IF has_year_dimension(schema)
         THEN compute_quantile_yearly(normalized.df, ws_cols, selected_power_curve,
                                      schema, relevant_columns_only)
         ELSE compute_quantile_atemporal(normalized.df, ws_cols,
                                         selected_power_curve, schema,
                                         relevant_columns_only)
    ELSE ComputeRaise(Error("ValueError", "UnknownSchema"))

compute_energy_production_df(df, heights, selected_power_curve, model_name, relevant_columns_only) ==
    IF df.none \/ empty(df) THEN ComputeReturnBare(df)
    ELSE
    LET hs == HeightList(heights)
        ws_cols == [k \in 1..Len(hs) |-> WsCol(hs[k])]
    IN  IF hs = <<>> THEN ComputeRaise(Error("ValueError", "InvalidArgument"))
        ELSE IF \E k \in 1..Len(ws_cols) : ws_cols[k] \notin columns(df)
        THEN ComputeRaise(Error("KeyError", "MissingColumn"))
        ELSE IF model_name \notin ModelNames
        THEN ComputeRaise(Error("ValueError", "InvalidModel"))
        ELSE
        LET schema == MODEL_CONFIG[model_name].schema
            invalid == validate_data_with_temporal_schema(df, schema)
        IN  IF invalid # NoError THEN ComputeRaise(invalid)
            ELSE compute_normalized(add_temporal_dimensions(df, schema), ws_cols,
                                    selected_power_curve, schema, relevant_columns_only)

\* lines 464 and 645: prod_df, schema = compute_energy_production_df(...)
\* iterating a DataFrame gives its column labels; None cannot be iterated
unpack_pair(r) ==
    IF r.shape = "pair" THEN [err |-> NoError, prod_df_is_table |-> TRUE]
    ELSE IF r.df.none THEN [err |-> Error("TypeError", "unpack"), prod_df_is_table |-> FALSE]
    ELSE IF Len(r.df.cols) # 2
    THEN [err |-> Error("ValueError", "unpack"), prod_df_is_table |-> FALSE]
    ELSE [err |-> NoError, prod_df_is_table |-> FALSE]

(***************************************************************************)
(* Inputs of smooth and of the jitter pass                                 *)
(***************************************************************************)
FloatVals == {Fin(n) : n \in 0..MaxVal} \cup {NaN, PosInf}
\* the documented example of the jitter pass: [3.02, 3.02, 3.02, 3.05]
DocExample == <<Fin(604000), Fin(604000), Fin(604000), Fin(610000)>>
QuantileArrays == SeqsUpTo(FloatVals, MaxLen) \cup {DocExample}

\* probabilities for n quantiles: the uniform grid over [0,1], one value short,
\* one value more, or with a NaN
UniformProbs(n) == Floats(linspace(0, PScale, n))
ProbArrays(n) ==
    {UniformProbs(n), UniformProbs(n + 1)}
        \cup (IF n >= 1 THEN {[UniformProbs(n) EXCEPT ![n] = NaN]} ELSE {})

(***************************************************************************)
(* Inputs of compute                                                       *)
(***************************************************************************)
IntHeight(h) == [is_int |-> TRUE, value |-> h, list |-> <<>>]
Heights(l) == [is_int |-> FALSE, value |-> 0, list |-> l]

ComputeArgs(df, heights, curve, model, relevant) ==
    [df |-> df, heights |-> heights, selected_power_curve |-> curve,
     model_name |-> model, relevant_columns_only |-> relevant]

\* the labels a table may carry, and the cell of a one-row table under each
ColumnUniverse ==
    <<"time", "mohr", "year", "Year", "month", "hour", "probability",
      "windspeed_40m", "windspeed_100m">>
DefaultCell(c) ==
    CASE c = "time" -> 2020010100
      [] c = "mohr" -> 100
      [] c \in {"year", "Year"} -> 2020
      [] c = "month" -> 1
      [] c = "hour" -> 0
      [] c = "probability" -> 0
      [] OTHER -> Ms(4)

ColumnLists ==
    {[k \in 1..Cardinality(S) |-> ColumnUniverse[Ascending(S)[k]]] :
        S \in SUBSET (1..Len(ColumnUniverse))}

\* one row under every choice of labels; no row under some of them
ShapeTables ==
    {DataFrame(cols, <<[c \in Elems(cols) |-> DefaultCell(c)]>>) :
        cols \in ColumnLists \ {<<>>}}
    \cup {DataFrame(cols, <<>>) :
            cols \in {<<>>, <<"probability", "windspeed_40m">>,
                      <<"year", "probability", "windspeed_40m">>,
                      <<"time", "windspeed_40m">>,
                      <<"mohr", "year", "windspeed_40m", "windspeed_100m">>}}
    \cup {NoneDf}

ShapeInputs ==
    {ComputeArgs(df, hs, "nlr-reference-100kW", m, TRUE) :
        df \in ShapeTables,
        hs \in {Heights(<<>>), Heights(<<40>>), Heights(<<40, 100>>), IntHeight(40)},
        m \in ModelNames \cup {"gfs-forecast"}}

\* quantile tables: up to MaxRows rows
MaxRows == 3
Years == {2020, 2021}
Probabilities == {0, PScale \div 2, PScale}
WindSpeeds == {Ms(4), Ms(8)}

\* rows of a quantile table under each of the years (0: a table without year);
\* the rows of the later year all carry the same wind speed
QuantileRows(years) ==
    UNION {{[c \in (IF y = 0 THEN {} ELSE {"year"})
                    \cup {"probability", "windspeed_40m", "windspeed_100m"} |->
               CASE c = "year" -> y
                 [] c = "probability" -> p
                 [] c = "windspeed_40m" -> w
                 [] OTHER -> w + Ms(2)] :
              p \in Probabilities, w \in IF y = 2021 THEN {Ms(8)} ELSE WindSpeeds} :
           y \in years}

\* the example of the design: quantiles 2, 4, 6, 8 m/s
DocQuantiles ==
    DataFrame(<<"probability", "windspeed_40m">>,
              [i \in 1..4 |-> [c \in {"probability", "windspeed_40m"} |->
                                  IF c = "probability" THEN (i - 1) * (PScale \div 3)
                                  ELSE Ms(2 * i)]])

\* heights and relevant_columns_only of the calls on quantile tables
HeightChoices ==
    {<<Heights(<<40>>), TRUE>>, <<Heights(<<100, 40>>), TRUE>>, <<Heights(<<100, 40>>), FALSE>>}
YearlyInput(rows, hs, rel) ==
    ComputeArgs(DataFrame(<<"year", "probability", "windspeed_40m", "windspeed_100m">>, rows),
                hs, "nlr-reference-100kW", "era5-quantiles", rel)
AtemporalInput(rows, hs, rel) ==
    ComputeArgs(DataFrame(<<"probability", "windspeed_40m", "windspeed_100m">>, rows),
                hs, "nlr-reference-100kW", "ensemble-quantiles", rel)
DocInputs ==
    {ComputeArgs(DocQuantiles, IntHeight(40), c, "ensemble-quantiles", TRUE) :
        c \in DOMAIN power_curves \cup {"invalid-curve"}}

\* time series tables: up to MaxTsRows rows
MaxTsRows == 2
TimeCells == {2020010100, 2020020105, 2021010100, 2020130100}
MohrCells == {100, 1223}

HourlyRows ==
    {[c \in {"time", "windspeed_40m"} |-> IF c = "time" THEN t ELSE w] :
        t \in TimeCells, w \in WindSpeeds}
\* a year cell of a month-hour table may be null
MohrRows ==
    {[c \in {"mohr", "year", "windspeed_40m"} |->
         CASE c = "mohr" -> mh [] c = "year" -> y [] OTHER -> w] :
        mh \in MohrCells, y \in Years \cup {NoYear}, w \in WindSpeeds}

HourlyInput(rows, rel) ==
    ComputeArgs(DataFrame(<<"time", "windspeed_40m">>, rows),
                IntHeight(40), "nlr-reference-100kW", "era5-timeseries", rel)
MohrInput(rows, rel) ==
    ComputeArgs(DataFrame(<<"mohr", "year", "windspeed_40m">>, rows),
                IntHeight(40), "nlr-reference-20kW", "wtk-timeseries", rel)

\* the tables of MaxRows rows are asked for one height only
HeightChoicesOf(rows) ==
    IF Len(rows) < MaxRows THEN HeightChoices ELSE {<<Heights(<<40>>), TRUE>>}

QuantileInputs ==
    UNION {{YearlyInput(rows, hr[1], hr[2]) : hr \in HeightChoicesOf(rows)} :
              rows \in SeqsUpTo(QuantileRows(Years), MaxRows) \ {<<>>}}
    \cup
    UNION {{AtemporalInput(rows, hr[1], hr[2]) : hr \in HeightChoicesOf(rows)} :
              rows \in SeqsUpTo(QuantileRows({0}), MaxRows) \ {<<>>}}
    \cup DocInputs

TimeseriesInputs ==
    {HourlyInput(rows, rel) : rows \in SeqsUpTo(HourlyRows, MaxTsRows) \ {<<>>}, rel \in BOOLEAN}
    \cup
    {MohrInput(rows, rel) : rows \in SeqsUpTo(MohrRows, MaxTsRows) \ {<<>>}, rel \in BOOLEAN}

ComputeInputs == ShapeInputs \cup QuantileInputs \cup TimeseriesInputs

(***************************************************************************)
(* The aggregations.  A float of an aggregated table is a fixed-point      *)
(* number: a wind speed in units of 5e-6 m/s, an energy in units of        *)
(* 1/KwhScale kWh; a float division is the integer division on them.       *)
(***************************************************************************)
KwhScale == 1000

\* Series.sum()
RECURSIVE SumSeq(_)
SumSeq(xs) ==
    IF Len(xs) = 0 THEN 0
    ELSE IF Len(xs) = 1 THEN xs[1]
    ELSE LET h == Len(xs) \div 2
         IN  SumSeq(SubSeq(xs, 1, h)) + SumSeq(SubSeq(xs, h + 1, Len(xs)))
\* Series.mean() of a non-empty series: sum / n, summed as quotients and
\* remainders of n so that the sum stays within the integers of the checker
Mean(xs) ==
    LET n == Len(xs)
    IN  SumSeq([i \in 1..n |-> xs[i] \div n]) + (SumSeq([i \in 1..n |-> xs[i] % n]) \div n)

\* round(): to the nearest multiple of unit, a tie to the even one
RoundHalfEven(x, unit) ==
    LET lo == x \div unit
        rest == x % unit
    IN  IF 2 * rest < unit THEN lo
        ELSE IF 2 * rest > unit THEN lo + 1
        ELSE IF lo % 2 = 0 THEN lo ELSE lo + 1

AvgWsCol == "Average wind speed (m/s)"
KwhCol == "kWh produced"
YearlyRow(year, avg_ws, kwh) ==
    [c \in {"year", AvgWsCol, KwhCol} |->
        CASE c = "year" -> year [] c = AvgWsCol -> avg_ws [] OTHER -> kwh]
YearlyColumns == <<"year", AvgWsCol, KwhCol>>

AggReturn(df) == [err |-> NoError, df |-> df]
AggRaise(e) == [err |-> e, df |-> EmptyDataFrame]

\* lines 464-466 and 645-647: what the destructuring of compute's result binds,
\* [err, prod_df, schema]; a failure of compute is passed on
unpacked(r) ==
    LET u == unpack_pair(r)
    IN  IF r.raised THEN [err |-> r.err, prod_df |-> EmptyDataFrame, schema |-> "none"]
        ELSE IF u.err # NoError
        THEN [err |-> u.err, prod_df |-> EmptyDataFrame, schema |-> "none"]
        ELSE IF ~u.prod_df_is_table
        THEN \* two column labels were bound: the second is no schema name
             [err |-> Error("ValueError", "UnknownSchema"), prod_df |-> EmptyDataFrame,
              schema |-> "none"]
        ELSE [err |-> NoError, prod_df |-> r.df, schema |-> r.schema]

compute_and_unpack(df, height, selected_power_curve, model_name) ==
    unpacked(compute_energy_production_df(df, IntHeight(height), selected_power_curve,
                                          model_name, TRUE))

\* the rows of a group of groupby(key)
GroupOf(df, key, k) == SelectSeq(df.rows, LAMBDA r : r[key] = k)
\* the keys of groupby(key), ascending; a null key makes no group
GroupKeys(df, key) == Ascending({df.rows[i][key] : i \in 1..Len(df.rows)} \ {NoYear})
ColumnOf(rows, c) == [i \in 1..Len(rows) |-> rows[i][c]]

\* the mutant forgets the 30 days of a representative month
yearly_kwh_no_days(encoding, kw) == SumSeq(kw) * KwhScale

\* lines 483-489: the energy of a year of a timeseries
yearly_kwh(encoding, kw) ==
    IF encoding = "mohr_encoded" THEN SumSeq(kw) * 30 * KwhScale
    ELSE SumSeq(kw) * KwhScale

\* lines 508-509 and 525-526: mean bin power times the hours of a year
quantile_kwh(kw) == ((SumSeq(kw) * KwhScale) \div Len(kw)) * 8760

\* lines 468-537: the yearly table of what compute returned, [err, df]
yearly_production(c, height) ==
    LET prod_df == c.prod_df
        schema == c.schema
        ws_column == WsCol(height)
        kw_column == KwCol(ws_column)
        encoding == TEMPORAL_SCHEMAS[schema].encoding
        years == GroupKeys(prod_df, "year")
        sorted(res_list) ==
            IF res_list = <<>> THEN AggRaise(Error("KeyError", "pandas"))
            ELSE AggReturn(sort_values(DataFrame(YearlyColumns, res_list), AvgWsCol))
    IN  IF c.err # NoError THEN AggRaise(c.err)
        ELSE IF is_timeseries_schema(schema)
        THEN IF "year" \notin columns(prod_df) THEN AggRaise(Error("KeyError", "pandas"))
             ELSE IF encoding \notin {"mohr_encoded", "datetime_full"}
             THEN AggRaise(Error("ValueError", "ConfigurationError"))
             ELSE sorted([k \in 1..Len(years) |->
                     LET group == GroupOf(prod_df, "year", years[k])
                     IN  YearlyRow(years[k], Mean(ColumnOf(group, ws_column)),
                                   yearly_kwh(encoding, ColumnOf(group, kw_column)))])
        ELSE IF is_quantile_schema(schema)
        THEN IF has_year_dimension(schema)
             THEN sorted([k \in 1..Len(years) |->
                     LET group == GroupOf(prod_df, "year", years[k])
                     IN  YearlyRow(years[k], Mean(ColumnOf(group, ws_column)),
                                   quantile_kwh(ColumnOf(group, kw_column)))])
             ELSE IF Len(prod_df.rows) = 0 THEN AggReturn(DataFrame(YearlyColumns, <<>>))
             ELSE sorted(<<YearlyRow(NoYear, Mean(Column(prod_df, ws_column)),
                                     quantile_kwh(Column(prod_df, kw_column)))>>)
        ELSE sorted(<<>>)

\* PowerCurveManager.prepare_yearly_production_df: [err, df]
prepare_yearly_production_df(df, height, selected_power_curve, model_name) ==
    yearly_production(compute_and_unpack(df, height, selected_power_curve, model_name), height)

\* f"{x:.2f}" of a wind speed: the number of hundredths of a m/s
Format2f(ws) == RoundHalfEven(ws, UnitsPerMs \div 100)
\* int(round(x)) of an energy: whole kWh
RoundKwh(kwh) == RoundHalfEven(kwh, KwhScale)
\* the mutant takes no year for missing
isna_never(year) == FALSE
isna(year) == year = NoYear

DictReturn(d, yearly) == [raised |-> FALSE, err |-> NoError, result |-> d, yearly |-> yearly]
DictRaise(e) == [raised |-> TRUE, err |-> e, result |-> <<>>, yearly |-> EmptyDataFrame]
Stat(avg_ws, kwh) == [avg_ws |-> avg_ws, kwh |-> kwh]
SummaryStat(year, avg_ws, kwh) == [year |-> year, avg_ws |-> avg_ws, kwh |-> kwh]

\* lines 557-573: the dict of the rows of the yearly table
yearly_dict(y) ==
    LET rows == y.df.rows
        year_key(row) == IF isna(row["year"]) THEN "Global" ELSE ToString(row["year"])
    IN  IF y.err # NoError THEN DictRaise(y.err)
        ELSE DictReturn([k \in {year_key(rows[i]) : i \in 1..Len(rows)} |->
                            LET row == CHOOSE r \in Elems(rows) : year_key(r) = k
                            IN  Stat(Format2f(row[AvgWsCol]), RoundKwh(row[KwhCol]))],
                        y.df)

\* PowerCurveManager.calculate_yearly_energy_production: a dict keyed by year
calculate_yearly_energy_production(df, height, selected_power_curve, model_name) ==
    yearly_dict(prepare_yearly_production_df(df, height, selected_power_curve, model_name))

\* the mutant takes the last row for both ends
summary_rows_last_only(rows) ==
    <<rows[Len(rows)], rows[Len(rows)]>>

\* iloc[[0]] and iloc[[-1]]
summary_rows(rows) == <<rows[1], rows[Len(rows)]>>

\* lines 598-624: the three entries of the yearly table
summary_dict(y) ==
    LET rows == y.df.rows
        ends == summary_rows(rows)
        entry(row) == SummaryStat(row["year"], Format2f(row[AvgWsCol]), RoundKwh(row[KwhCol]))
        res_avg == YearlyRow(NoYear, Mean(ColumnOf(rows, AvgWsCol)), Mean(ColumnOf(rows, KwhCol)))
    IN  IF y.err # NoError THEN DictRaise(y.err)
        ELSE IF empty(y.df) THEN DictReturn(<<>>, y.df)
        ELSE DictReturn([k \in {"Lowest year", "Average year", "Highest year"} |->
                            CASE k = "Lowest year" -> entry(ends[1])
                              [] k = "Average year" -> entry(res_avg)
                              [] OTHER -> entry(ends[2])],
                        y.df)

\* PowerCurveManager.calculate_energy_production_summary
calculate_energy_production_summary(df, height, selected_power_curve, model_name) ==
    summary_dict(prepare_yearly_production_df(df, height, selected_power_curve, model_name))

\* calendar.month_abbr[1..12]
month_abbr ==
    <<"Jan", "Feb", "Mar", "Apr", "May", "Jun", "Jul", "Aug", "Sep", "Oct", "Nov", "Dec">>

\* the mutant divides by the years of the month instead of those of the table
n_years_of_month(df, rows) ==
    Cardinality({rows[i]["year"] : i \in 1..Len(rows)} \ {NoYear})

\* prod_df["year"].nunique(): the distinct years of the whole table; rows is
\* the group the count is applied to
nunique_years(df, rows) ==
    Cardinality({df.rows[i]["year"] : i \in 1..Len(df.rows)} \ {NoYear})

\* the mutant does not divide by the number of years
monthly_kwh_undivided(encoding, kw, n_years) ==
    IF encoding = "mohr_encoded" THEN SumSeq(kw) * 30 * KwhScale
    ELSE SumSeq(kw) * KwhScale

\* lines 674-679
monthly_kwh(encoding, kw, n_years) ==
    IF encoding = "mohr_encoded" THEN (SumSeq(kw) * 30 * KwhScale) \div n_years
    ELSE (SumSeq(kw) * KwhScale) \div n_years

\* lines 649-696: the dict of the months of what compute returned
monthly_dict(c, height) ==
    LET prod_df == c.prod_df
        schema == c.schema
        ws_column == WsCol(height)
        kw_column == KwCol(ws_column)
        months == GroupKeys(prod_df, "month")
        encoding == TEMPORAL_SCHEMAS[schema].encoding
    IN  IF c.err # NoError THEN DictRaise(c.err)
        ELSE IF ~is_timeseries_schema(schema)
        THEN DictRaise(Error("ValueError", "UnsupportedOperation"))
        ELSE IF "month" \notin columns(prod_df) \/ "year" \notin columns(prod_df)
        THEN DictRaise(Error("KeyError", "pandas"))
        ELSE IF nunique_years(prod_df, prod_df.rows) = 0
        THEN DictRaise(Error("ValueError", "NoData"))
        ELSE IF encoding \notin {"mohr_encoded", "datetime_full"}
        THEN DictRaise(Error("ValueError", "ConfigurationError"))
        ELSE IF \E k \in 1..Len(months) : months[k] > 12
        THEN DictRaise(Error("IndexError", "month_abbr"))
        ELSE DictReturn([k \in {month_abbr[months[i]] : i \in 1..Len(months)} |->
                            LET m == CHOOSE i \in 1..12 : month_abbr[i] = k
                                group == GroupOf(prod_df, "month", m)
                            IN  Stat(Format2f(Mean(ColumnOf(group, ws_column))),
                                     RoundKwh(monthly_kwh(encoding, ColumnOf(group, kw_column),
                                                          nunique_years(prod_df, group))))],
                        prod_df)

\* PowerCurveManager.calculate_monthly_energy_production
calculate_monthly_energy_production(df, height, selected_power_curve, model_name) ==
    monthly_dict(compute_and_unpack(df, height, selected_power_curve, model_name), height)

(***************************************************************************)
(* Inputs of the aggregations                                              *)
(***************************************************************************)
AggArgs(df, height, curve, model) ==
    [df |-> df, height |-> height, selected_power_curve |-> curve, model_name |-> model]

\* 12 months x 24 hours of one year at 7.5 m/s, 10 kW on the 20 kW curve
DocMohrYear ==
    DataFrame(<<"mohr", "year", "windspeed_40m">>,
              [i \in 1..288 |->
                  [c \in {"mohr", "year", "windspeed_40m"} |->
                      CASE c = "mohr" -> (((i - 1) \div 24) + 1) * 100 + ((i - 1) % 24)
                        [] c = "year" -> 2020
                        [] OTHER -> 1500000]])

\* the days before each month of a year of 365 days
DaysBefore == <<0, 31, 59, 90, 120, 151, 181, 212, 243, 273, 304, 334>>
\* the 8760 hours of 2021 at 7.5 m/s, 50 kW on the 100 kW curve
DocHourlyYear ==
    DataFrame(<<"time", "windspeed_40m">>,
              [i \in 1..8760 |->
                  LET doy == (i - 1) \div 24
                      m == CHOOSE k \in 1..12 :
                               /\ DaysBefore[k] <= doy
                               /\ (k = 12 \/ doy < DaysBefore[k + 1])
                      d == doy - DaysBefore[m] + 1
                  IN  [c \in {"time", "windspeed_40m"} |->
                          IF c = "time"
                          THEN 2021000000 + m * 10000 + d * 100 + ((i - 1) % 24)
                          ELSE 1500000]])

\* two years of the same hours: a January kW sum of 1000 in each
\* (twenty hours at rated power, 50 kW at 7.5 m/s on the 100 kW curve)
DocTwoYears ==
    DataFrame(<<"time", "windspeed_40m">>,
              [i \in 1..40 |->
                  [c \in {"time", "windspeed_40m"} |->
                      IF c = "time"
                      THEN (IF i <= 20 THEN 2020010100 ELSE 2021010100) + ((i - 1) % 20)
                      ELSE 1500000]])

\* a year of two hours at 8 and 4 m/s and a year of one hour at 8 m/s: the
\* year of the lower average wind speed has the larger energy
DocUnevenYears ==
    DataFrame(<<"time", "windspeed_40m">>,
              [i \in 1..3 |->
                  [c \in {"time", "windspeed_40m"} |->
                      IF c = "time" THEN <<2020010100, 2021010100, 2020010101>>[i]
                      ELSE <<Ms(8), Ms(8), Ms(4)>>[i]]])

DocAggInputs ==
    {AggArgs(DocMohrYear, 40, "nlr-reference-20kW", "wtk-timeseries"),
     AggArgs(DocHourlyYear, 40, "nlr-reference-100kW", "era5-timeseries"),
     AggArgs(DocTwoYears, 40, "nlr-reference-100kW", "era5-timeseries"),
     AggArgs(DocUnevenYears, 40, "nlr-reference-100kW", "era5-timeseries"),
     AggArgs(DocQuantiles, 40, "nlr-reference-100kW", "ensemble-quantiles")}

\* the tables of compute of fewer than MaxRows rows, and the documented ones
AggInputs ==
    {AggArgs(a.df, 40, a.selected_power_curve, a.model_name) :
        a \in {c \in ComputeInputs : Len(c.df.rows) < MaxRows}}
    \cup DocAggInputs

(***************************************************************************)
(* Inputs of normalize                                                     *)
(***************************************************************************)
NormalizeArgs(df, schema) == [df |-> df, schema |-> schema]
\* a month-hour table of one row for every month and hour
OneMohrRow(month, hour) ==
    DataFrame(<<"mohr", "year", "windspeed_40m">>,
              <<[c \in {"mohr", "year", "windspeed_40m"} |->
                   CASE c = "mohr" -> month * 100 + hour [] c = "year" -> 2020 [] OTHER -> Ms(4)]>>)
NormalizeInputs ==
    {NormalizeArgs(df, s) : df \in ShapeTables \ {NoneDf}, s \in SchemaNames}
    \cup {NormalizeArgs(DataFrame(<<"time", "windspeed_40m">>, rows), "full_hourly") :
             rows \in SeqsUpTo(HourlyRows, MaxTsRows) \ {<<>>}}
    \cup {NormalizeArgs(DataFrame(<<"mohr", "year", "windspeed_40m">>, rows), "aggregated_mohr") :
             rows \in SeqsUpTo(MohrRows, MaxTsRows) \ {<<>>}}
    \cup {NormalizeArgs(OneMohrRow(m, h), "aggregated_mohr") : m \in 1..12, h \in 0..23}
    \cup {NormalizeArgs(DocMohrYear, "aggregated_mohr")}

(***************************************************************************)
(* The v1 request layer: validation.py, wind_data_core.py and the handlers *)
(* of wind_data_controller.py.  A validator yields "ok", "400" for its     *)
(* HTTPException, or the name of another exception it ends with.           *)
(***************************************************************************)
\* dict.get(key, [])
dict_get(d, key) == IF key \in DOMAIN d THEN d[key] ELSE <<>>

validate_model(model) == IF model \notin DOMAIN MODEL_CONFIG THEN "400" ELSE "ok"

validate_source(model, source) ==
    IF model \notin DOMAIN MODEL_CONFIG THEN "KeyError"
    ELSE IF source # MODEL_CONFIG[model].source THEN "400" ELSE "ok"

\* the mutant looks the period up under the windspeed periods whatever the data type
validate_period_type_windspeed(model, period, data_type) ==
    IF model \notin DOMAIN MODEL_CONFIG THEN "KeyError"
    ELSE IF period \notin Elems(dict_get(period_type[MODEL_CONFIG[model].schema], "windspeed"))
    THEN "400" ELSE "ok"

validate_period_type(model, period, data_type) ==
    IF model \notin DOMAIN MODEL_CONFIG THEN "KeyError"
    ELSE IF period \notin Elems(dict_get(period_type[MODEL_CONFIG[model].schema], data_type))
    THEN "400" ELSE "ok"

validate_lat(model, lat) ==
    IF model \notin DOMAIN MODEL_CONFIG THEN "KeyError"
    ELSE IF ~(MODEL_CONFIG[model].grid_info.min_lat <= lat
              /\ lat <= MODEL_CONFIG[model].grid_info.max_lat)
    THEN "400" ELSE "ok"

validate_lng(model, lng) ==
    IF model \notin DOMAIN MODEL_CONFIG THEN "KeyError"
    ELSE IF ~(MODEL_CONFIG[model].grid_info.min_long <= lng
              /\ lng <= MODEL_CONFIG[model].grid_info.max_long)
    THEN "400" ELSE "ok"

validate_height(model, height) ==
    IF model \notin DOMAIN MODEL_CONFIG THEN "KeyError"
    ELSE IF MODEL_CONFIG[model].heights # <<>> /\ height \notin Elems(MODEL_CONFIG[model].heights)
    THEN "400" ELSE "ok"

\* the names the pattern ^[\w\-.]+$ refuses, among those asked for
re_match(powercurve) == powercurve \notin {"", "../passwd"}

validate_powercurve(powercurve) ==
    IF ~re_match(powercurve) THEN "400"
    ELSE IF powercurve \notin DOMAIN power_curves THEN "400" ELSE "ok"

validate_limit(limit) == IF ~(1 <= limit /\ limit <= 4) THEN "400" ELSE "ok"

\* the validators run in order: the first that does not pass ends the call
first_failure(vs) ==
    IF \A i \in 1..Len(vs) : vs[i] = "ok" THEN "ok"
    ELSE vs[CHOOSE i \in 1..Len(vs) : vs[i] # "ok" /\ \A j \in 1..(i - 1) : vs[j] = "ok"]

\* how a core function or a handler ends
Returned(body, fetched, calls) ==
    [kind |-> "return", status |-> 200, exc |-> "none", fetched |-> fetched,
     calls |-> calls, body |-> body]
HTTPException(status_code, fetched, calls) ==
    [kind |-> "raise", status |-> status_code, exc |-> "HTTPException", fetched |-> fetched,
     calls |-> calls, body |-> <<>>]
Raised(exc, fetched, calls) ==
    [kind |-> "raise", status |-> 0, exc |-> exc, fetched |-> fetched,
     calls |-> calls, body |-> <<>>]
rejected(v, fetched) ==
    IF v = "400" THEN HTTPException(400, fetched, {}) ELSE Raised(v, fetched, {})

\* except HTTPException: raise; except Exception: raise HTTPException(500)
handler(r) ==
    IF r.kind = "return" \/ r.exc = "HTTPException" THEN r
    ELSE [r EXCEPT !.status = 500]

\* wind_data_core.get_windspeed_core
get_windspeed_core(model, lat, lng, height, period, source, data) ==
    LET v == first_failure(<<validate_lat(model, lat), validate_lng(model, lng),
                             validate_model(model), validate_height(model, height),
                             validate_source(model, source),
                             validate_period_type(model, period, "windspeed")>>)
    IN  IF v # "ok" THEN rejected(v, FALSE)
        ELSE IF data.none THEN HTTPException(404, TRUE, {})
        ELSE Returned(data, TRUE, {})

\* the mutant of lines 151-153 offers every period of a full response
production_periods_all(schema) == {"all", "summary", "annual", "monthly"}

\* lines 151-153: the production periods of the schema, "full" left out
production_periods(schema) ==
    Elems(dict_get(period_type[schema], "production")) \ {"full"}

\* summary["Average year"]["kWh produced"]
average_year_kwh(summary) == summary.result["Average year"].kwh

\* lines 113-184 after the summary has been computed and holds an average year
production_after_summary(period, valid_periods, summary, yearly, monthly) ==
    CASE period = "all" ->
           Returned([k \in {"energy_production"} |-> average_year_kwh(summary)],
                    TRUE, {"summary"})
      [] period = "summary" ->
           Returned([k \in {"summary_avg_energy_production"} |-> summary.result],
                    TRUE, {"summary"})
      [] OTHER ->
           IF "annual" \in valid_periods /\ yearly.raised
           THEN Raised(yearly.err.exc, TRUE, {"summary", "yearly"})
           ELSE IF "monthly" \in valid_periods /\ monthly.raised
           THEN Raised(monthly.err.exc, TRUE,
                       {"summary", "monthly"}
                           \cup (IF "annual" \in valid_periods THEN {"yearly"} ELSE {}))
           ELSE Returned(
                  [k \in {"summary_avg_energy_production", "energy_production"}
                         \cup (IF "annual" \in valid_periods
                               THEN {"yearly_avg_energy_production"} ELSE {})
                         \cup (IF "monthly" \in valid_periods
                               THEN {"monthly_avg_energy_production"} ELSE {}) |->
                      CASE k = "summary_avg_energy_production" -> summary.result
                        [] k = "energy_production" -> average_year_kwh(summary)
                        [] k = "yearly_avg_energy_production" -> yearly.result
                        [] OTHER -> monthly.result],
                  TRUE,
                  {"summary"}
                      \cup (IF "annual" \in valid_periods THEN {"yearly"} ELSE {})
                      \cup (IF "monthly" \in valid_periods THEN {"monthly"} ELSE {}))

\* lines 113-184: the aggregations of each period on the fetched table
production_response(period, valid_periods, summary, yearly, monthly) ==
    CASE period = "annual" ->
           IF yearly.raised THEN Raised(yearly.err.exc, TRUE, {"yearly"})
           ELSE Returned([k \in {"yearly_avg_energy_production"} |-> yearly.result],
                         TRUE, {"yearly"})
      [] period = "monthly" ->
           IF monthly.raised THEN Raised(monthly.err.exc, TRUE, {"monthly"})
           ELSE Returned([k \in {"monthly_avg_energy_production"} |-> monthly.result],
                         TRUE, {"monthly"})
      [] period \in {"all", "summary", "full"} ->
           IF summary.raised THEN Raised(summary.err.exc, TRUE, {"summary"})
           ELSE IF period # "summary" /\ "Average year" \notin DOMAIN summary.result
           THEN Raised("KeyError", TRUE, {"summary"})
           ELSE production_after_summary(period, valid_periods, summary, yearly, monthly)
      [] OTHER -> Returned(<<>>, TRUE, {})

\* wind_data_core.get_production_core
get_production_core(model, lat, lng, height, powercurve, period, source, df) ==
    LET v == first_failure(<<validate_lat(model, lat), validate_lng(model, lng),
                             validate_model(model), validate_height(model, height),
                             validate_powercurve(powercurve),
                             validate_source(model, source),
                             validate_period_type(model, period, "production")>>)
    IN  IF v # "ok" THEN rejected(v, FALSE)
        ELSE IF df.none THEN HTTPException(404, TRUE, {})
        ELSE production_response(
               period, production_periods(MODEL_CONFIG[model].schema),
               calculate_energy_production_summary(df, height, powercurve, model),
               calculate_yearly_energy_production(df, height, powercurve, model),
               calculate_monthly_energy_production(df, height, powercurve, model))

\* round(2) of a wind speed column
Round2(ws) == RoundHalfEven(ws, UnitsPerMs \div 100) * (UnitsPerMs \div 100)

\* lines 240-256: the table of the download; the monthly one has a row for
\* every year and month with the mean of each wind speed column
timeseries_table(df, period) ==
    LET ws_cols == SelectSeq(df.cols, LAMBDA c : c \notin {"time", "year", "month"})
        year_month(row) == row["time"] \div 10000
        keys == Ascending({year_month(df.rows[i]) : i \in 1..Len(df.rows)})
        group(k) == SelectSeq(df.rows, LAMBDA r : year_month(r) = k)
    IN  IF "time" \notin columns(df) THEN DataFrame(<<>>, <<>>)
        ELSE IF period = "monthly"
        THEN DataFrame(<<"year_month">> \o ws_cols,
                       [i \in 1..Len(keys) |->
                           [c \in {"year_month"} \cup Elems(ws_cols) |->
                               IF c = "year_month" THEN keys[i]
                               ELSE Round2(Mean([j \in 1..Len(group(keys[i])) |->
                                                    group(keys[i])[j][c]]))]])
        ELSE DataFrame(df.cols,
                       [i \in 1..Len(df.rows) |->
                           [c \in columns(df) |->
                               IF c = "time" THEN df.rows[i][c] ELSE Round2(df.rows[i][c])]])

\* wind_data_core.get_timeseries_core with no year asked for: lines 215-217,
\* 228-238 and the table
get_timeseries_core(model, period, source, df) ==
    LET v == first_failure(<<validate_model(model), validate_source(model, source),
                             validate_period_type(model, period, "timeseries")>>)
    IN  IF v # "ok" THEN rejected(v, FALSE)
        ELSE IF df.none \/ empty(df) THEN HTTPException(404, TRUE, {})
        ELSE IF "time" \notin columns(df) THEN Raised("KeyError", TRUE, {})
        ELSE Returned(timeseries_table(df, period), TRUE, {})

\* lines 288-293 and 302-306: the columns taken from the table of compute
RECURSIVE export_column_list(_)
export_column_list(heights) ==
    IF heights = <<>> THEN <<>>
    ELSE <<"windspeed_" \o ToString(Head(heights)) \o "m",
           "energy_" \o ToString(Head(heights)) \o "m_kwh">>
         \o export_column_list(Tail(heights))

export_columns(heights) == Elems(export_column_list(heights))

\* lines 297-308: a row for every year and month, the mean of each wind speed
\* column and the sum of each energy column
monthly_export(df, heights) ==
    LET year_month(row) == row["year"] * 100 + row["month"]
        keys == Ascending({year_month(df.rows[i]) : i \in 1..Len(df.rows)})
        group(k) == SelectSeq(df.rows, LAMBDA r : year_month(r) = k)
        of(k, c) == [j \in 1..Len(group(k)) |-> group(k)[j][c]]
    IN  DataFrame(<<"year_month">> \o export_column_list(heights),
                  [i \in 1..Len(keys) |->
                      [c \in {"year_month"} \cup export_columns(heights) |->
                          IF c = "year_month" THEN keys[i]
                          ELSE IF c \in {WsCol(heights[h]) : h \in 1..Len(heights)}
                          THEN Mean(of(keys[i], c))
                          ELSE SumSeq(of(keys[i], c))]])

\* lines 286-319 on the table of compute
energy_export(u, heights, period) ==
    IF u.err # NoError THEN Raised(u.err.exc, TRUE, {"compute"})
    ELSE IF period = "hourly"
    THEN IF ({"time"} \cup export_columns(heights)) \subseteq columns(u.prod_df)
         THEN Returned(Select(u.prod_df, <<"time">> \o export_column_list(heights)),
                       TRUE, {"compute"})
         ELSE Raised("KeyError", TRUE, {"compute"})
    ELSE IF period = "monthly"
    THEN IF ({"year", "month"} \cup export_columns(heights)) \subseteq columns(u.prod_df)
         THEN Returned(monthly_export(u.prod_df, heights), TRUE, {"compute"})
         ELSE Raised("KeyError", TRUE, {"compute"})
    ELSE Raised("UnboundLocalError", TRUE, {"compute"})

\* lines 281-284: the hourly table and compute on it
energy_of_timeseries(t, heights, powercurve, model, period) ==
    IF t.kind # "return" THEN t
    ELSE energy_export(unpacked(compute_energy_production_df(t.body, Heights(heights),
                                                             powercurve, model, FALSE)),
                       heights, period)

\* wind_data_core.get_timeseries_energy_core
get_timeseries_energy_core(model, powercurve, period, source, df) ==
    IF validate_powercurve(powercurve) # "ok" THEN HTTPException(400, FALSE, {})
    ELSE IF model \notin DOMAIN MODEL_CONFIG THEN Raised("KeyError", FALSE, {})
    ELSE energy_of_timeseries(get_timeseries_core(model, "hourly", source, df),
                              MODEL_CONFIG[model].heights, powercurve, model, period)

(***************************************************************************)
(* The handlers of wind_data_controller.py                                 *)
(***************************************************************************)
\* source = MODEL_CONFIG.get(model, {}).get("source") when none is given
default_source(model, source) == IF source = "None" THEN MODEL_CONFIG[model].source ELSE source

\* GET /{model}/windspeed
get_windspeed(model, lat, lng, height, period, source, data) ==
    IF validate_model(model) # "ok" THEN HTTPException(400, FALSE, {})
    ELSE handler(get_windspeed_core(model, lat, lng, height, period,
                                    default_source(model, source), data))

\* turbine = turbine or powercurve
turbine_or(turbine, powercurve) == IF turbine \in {"None", ""} THEN powercurve ELSE turbine

\* GET /{model}/production
get_production(model, lat, lng, height, turbine, powercurve, period, source, df) ==
    IF validate_model(model) # "ok" THEN HTTPException(400, FALSE, {})
    ELSE IF turbine_or(turbine, powercurve) \in {"None", ""} THEN HTTPException(400, FALSE, {})
    ELSE handler(get_production_core(model, lat, lng, height, turbine_or(turbine, powercurve),
                                     period, default_source(model, source), df))

\* lines 54-62: the models with a fetcher of athena
athena_data_fetchers == {"era5-quantiles", "ensemble-quantiles", "wtk-timeseries"}

\* GET /{model}/grid-points; the lookup finds the points or fails
get_grid_points(model, limit, found) ==
    IF validate_model(model) # "ok" THEN HTTPException(400, FALSE, {})
    ELSE IF model \notin athena_data_fetchers THEN HTTPException(400, FALSE, {})
    ELSE IF validate_limit(limit) # "ok" THEN HTTPException(400, FALSE, {})
    ELSE IF ~found THEN handler(Raised("Exception", TRUE, {}))
    ELSE Returned([k \in {"locations"} |-> limit], TRUE, {})

\* GET /{model}/info
get_model_info(model) ==
    IF validate_model(model) # "ok" THEN HTTPException(400, FALSE, {})
    ELSE Returned([k \in {"model", "supported_periods", "available_heights", "grid_info"} |->
                      CASE k = "model" -> model
                        [] k = "supported_periods" -> period_type[MODEL_CONFIG[model].schema]
                        [] k = "available_heights" -> MODEL_CONFIG[model].heights
                        [] OTHER -> MODEL_CONFIG[model].grid_info],
                  FALSE, {})

\* GET /{model}/timeseries
download_timeseries(model, period, source, df) ==
    handler(get_timeseries_core(model, period, source, df))

\* GET /{model}/timeseries/energy
download_energy_timeseries(model, turbine, period, source, df) ==
    handler(get_timeseries_energy_core(model, turbine, period, source, df))

\* the loop over payload.locations: the first call that raises ends it
RECURSIVE batch(_, _)
batch(outcomes, fetched) ==
    IF outcomes = <<>> THEN Returned(<<>>, fetched, {})
    ELSE IF Head(outcomes).kind # "return" THEN handler(Head(outcomes))
    ELSE batch(Tail(outcomes), TRUE)

\* POST /{model}/timeseries/batch
download_timeseries_batch(model, period, source, dfs) ==
    batch([i \in 1..Len(dfs) |-> get_timeseries_core(model, period, source, dfs[i])], FALSE)

\* POST /{model}/timeseries/energy/batch
download_timeseries_energy_batch(model, turbine, period, source, dfs) ==
    batch([i \in 1..Len(dfs) |->
              get_timeseries_energy_core(model, turbine, period, source, dfs[i])], FALSE)

\* the request of an endpoint and the answer of its handler
Request(endpoint, model, lat, lng, height, turbine, powercurve, period, source, limit, data) ==
    [endpoint |-> endpoint, model |-> model, lat |-> lat, lng |-> lng, height |-> height,
     turbine |-> turbine, powercurve |-> powercurve, period |-> period, source |-> source,
     limit |-> limit, data |-> data]

respond(q) ==
    CASE q.endpoint = "windspeed" ->
           get_windspeed(q.model, q.lat, q.lng, q.height, q.period, q.source, q.data[1])
      [] q.endpoint = "production" ->
           get_production(q.model, q.lat, q.lng, q.height, q.turbine, q.powercurve,
                          q.period, q.source, q.data[1])
      [] q.endpoint = "grid-points" -> get_grid_points(q.model, q.limit, ~q.data[1].none)
      [] q.endpoint = "info" -> get_model_info(q.model)
      [] q.endpoint = "timeseries" ->
           download_timeseries(q.model, q.period, q.source, q.data[1])
      [] q.endpoint = "timeseries/batch" ->
           download_timeseries_batch(q.model, q.period, q.source, q.data)
      [] q.endpoint = "timeseries/energy" ->
           download_energy_timeseries(q.model, q.turbine, q.period, q.source, q.data[1])
      [] OTHER ->
           download_timeseries_energy_batch(q.model, q.turbine, q.period, q.source, q.data)

(***************************************************************************)
(* Inputs of the requests                                                  *)
(***************************************************************************)
RequestModels == ModelNames \cup {"invalid_model"}
RequestPeriods == {"all", "summary", "annual", "monthly", "hourly", "full", "invalid"}
\* a latitude and a longitude within the grid of every model, and a latitude
\* north of every grid
LatInside == Era5Grid.min_lat
LngInside == Era5Grid.max_long
LatOutside == WtkGrid.max_lat + 1

\* two hours of one grid point at every height of era5
DocEra5Export ==
    DataFrame(<<"time">> \o [i \in 1..6 |-> WsCol(MODEL_CONFIG["era5-timeseries"].heights[i])],
              [i \in 1..2 |->
                  [c \in {"time"} \cup {WsCol(h) : h \in Elems(MODEL_CONFIG["era5-timeseries"].heights)} |->
                      IF c = "time" THEN 2020010100 + i ELSE Ms(4 * i)]])

\* the tables a fetch of raw data hands to the production of a model
FetchedTables(model) ==
    {a.df : a \in {b \in DocAggInputs : b.model_name = model}}
    \cup (CASE model = "era5-quantiles" ->
                 {DataFrame(<<"year", "probability", "windspeed_40m", "windspeed_100m">>, rows) :
                     rows \in [1..2 -> QuantileRows(Years)]}
            [] model = "wtk-timeseries" ->
                 {DataFrame(<<"mohr", "year", "windspeed_40m">>, <<r>>) : r \in MohrRows}
            [] model = "ensemble-quantiles" ->
                 {DataFrame(<<"probability", "windspeed_40m", "windspeed_100m">>, rows) :
                     rows \in [1..2 -> QuantileRows({0})]}
            [] OTHER -> {})

CurveOf(model) == IF model = "wtk-timeseries" THEN "nlr-reference-20kW" ELSE "nlr-reference-100kW"

WindspeedRequests ==
    {Request("windspeed", m, lat, LngInside, h, "None", "None", p, s, 0, <<d>>) :
        m \in RequestModels, lat \in {LatInside, LatOutside}, h \in {40, 45}, p \in RequestPeriods,
        s \in {"None", "athena", "s3"}, d \in {NoneDf, DocQuantiles}}

\* the production requests that find no data, under every choice of parameters
ProductionRequests ==
    {Request("production", m, lat, LngInside, h, tp[1], tp[2], p, s, 0, <<NoneDf>>) :
        m \in RequestModels, lat \in {LatInside, LatOutside}, h \in {40, 45},
        tp \in {<<"None", "None">>, <<"nlr-reference-100kW", "None">>,
                <<"None", "nlr-reference-100kW">>, <<"missing-curve", "None">>,
                <<"../passwd", "None">>},
        p \in RequestPeriods, s \in {"None", "athena", "s3"}}

\* the production requests of valid parameters that find a table
ProductionTables ==
    UNION {{Request("production", m, LatInside, LngInside, 40, CurveOf(m), "None", p, "None", 0, <<df>>) :
               p \in RequestPeriods, df \in FetchedTables(m)} : m \in ModelNames}

GridRequests ==
    {Request("grid-points", m, LatInside, LngInside, 0, "None", "None", "all", "None", l, <<d>>) :
        m \in RequestModels, l \in {0, 1, 4, 5}, d \in {NoneDf, EmptyDataFrame}}

InfoRequests ==
    {Request("info", m, 0, 0, 0, "None", "None", "all", "None", 0, <<NoneDf>>) :
        m \in RequestModels}

DownloadTables == {NoneDf, EmptyDataFrame, DocEra5Export}

TimeseriesRequests ==
    {Request(e, m, 0, 0, 0, t, "None", p, s, 0, <<d>>) :
        e \in {"timeseries", "timeseries/energy"}, m \in RequestModels,
        t \in {"nlr-reference-100kW", "missing-curve"},
        p \in {"hourly", "monthly", "all", "invalid"}, s \in {"s3", "athena"},
        d \in DownloadTables}

BatchRequests ==
    {Request(e, m, 0, 0, 0, t, "None", p, "s3", 0, ds) :
        e \in {"timeseries/batch", "timeseries/energy/batch"}, m \in RequestModels,
        t \in {"nlr-reference-100kW", "missing-curve"}, p \in {"hourly", "monthly", "invalid"},
        ds \in SeqsUpTo({NoneDf, DocEra5Export}, 2)}

RequestInputs ==
    WindspeedRequests \cup ProductionRequests \cup ProductionTables \cup GridRequests
        \cup InfoRequests \cup TimeseriesRequests \cup BatchRequests

NoArgs == [none |-> TRUE]
NoRet == [none |-> TRUE]

(***************************************************************************)
(* The caller's objects.  A write of the code lands in the caller's table  *)
(* when the object written to is that table and not a copy of it.          *)
(***************************************************************************)
\* lines 258-263: normalization hands back the caller's table itself when it
\* derives nothing, and works on a copy otherwise
normalized_is_input(df, schema) ==
    LET dims == Elems(TEMPORAL_SCHEMAS[schema].temporal_dimensions)
    IN  dims = {} \/ \A d \in dims : d \in columns_lower(df)

\* the mutant adds the kW columns to the table it was handed
result_is_input_no_copy(df_with_temporal_is_input) == df_with_temporal_is_input

\* line 367: result = df_with_temporal.copy() is a new table
result_is_input(df_with_temporal_is_input) == FALSE

\* the caller's table after compute: the kW columns of line 369 are the only
\* columns set on a table that compute did not build itself
input_after(r, df, hs, selected_power_curve) ==
    IF r.shape = "pair" /\ r.branch = "timeseries"
       /\ result_is_input(normalized_is_input(df, r.schema))
    THEN add_kw_columns(df, [k \in 1..Len(hs) |-> WsCol(hs[k])], selected_power_curve)
    ELSE df

input_after_compute(df, heights, selected_power_curve, model_name, relevant_columns_only) ==
    input_after(compute_energy_production_df(df, heights, selected_power_curve, model_name,
                                             relevant_columns_only),
                df, HeightList(heights), selected_power_curve)

\* line 114: _jitter_nonincreasing writes to a copy of the array
\* line 263: _add_temporal_dimensions sets its columns on a copy of the table
Heap(input) ==
    [input |-> input, TEMPORAL_SCHEMAS |-> TEMPORAL_SCHEMAS, MODEL_CONFIG |-> MODEL_CONFIG,
     power_curves |-> power_curves]


Init ==
    /\ heap = Heap(NoArgs)
    /\ pc = "idle"
    /\ op = "none"
    /\ args = NoArgs
    /\ ret = NoRet
    /\ fits = 0
    /\ jitters = 0
    /\ exc1 = "none"
    /\ q_fix = <<>>

(***************************************************************************)
(* smooth, statement by statement                                          *)
(***************************************************************************)
\* lines 191-196: the arrays and the defaults
SmoothCall ==
    /\ pc = "idle"
    /\ \E q \in QuantileArrays, M1 \in {2, M1Default}, M2 \in {2, M2Default} :
         \E p \in ProbArrays(Len(q)) :
            args' = [quantiles |-> q, probs |-> p, M1 |-> M1, M2 |-> M2,
                     probs_new |-> linspace(0, PScale, M2)]
    /\ heap' = [heap EXCEPT !.input = [quantiles |-> args'.quantiles, probs |-> args'.probs]]
    /\ op' = "smooth"
    /\ pc' = "fit1"
    /\ ret' = NoRet
    /\ fits' = 0
    /\ jitters' = 0
    /\ exc1' = "none"
    /\ q_fix' = <<>>

\* lines 198-204: the first fit and its two handlers
SmoothFit1 ==
    /\ pc = "fit1"
    /\ LET r == run_cubic(args.quantiles, args.probs, args.probs_new, args.M1)
       IN  /\ fits' = fits + 1
           /\ exc1' = r.exc
           /\ IF r.ok
              THEN /\ ret' = SmoothReturn(r.q_new, r.probs_new, "Smoothed")
                   /\ pc' = "done"
              ELSE IF except_first(r.exc) = "fallback"
              THEN /\ ret' = ret
                   /\ pc' = "jitter"
              ELSE IF except_first(r.exc) = "default"
              THEN /\ ret' = SmoothReturn(zeros_like(args.probs_new), args.probs_new,
                                          "DegradedZero")
                   /\ pc' = "done"
              ELSE /\ ret' = SmoothRaise(r.exc)
                   /\ pc' = "done"
    /\ UNCHANGED <<heap, op, args, jitters, q_fix>>

\* line 207
SmoothJitter ==
    /\ pc = "jitter"
    /\ q_fix' = jitter_nonincreasing(args.quantiles, Eps)
    /\ jitters' = jitters + 1
    /\ pc' = "fit2"
    /\ UNCHANGED <<heap, op, args, ret, fits, exc1>>

\* lines 208-211
SmoothFit2 ==
    /\ pc = "fit2"
    /\ LET r == run_cubic(q_fix, args.probs, args.probs_new, args.M1)
       IN  /\ fits' = fits + 1
           /\ IF r.ok
              THEN ret' = SmoothReturn(r.q_new, r.probs_new, "JitteredAndSmoothed")
              ELSE IF except_second(r.exc) = "default"
              THEN ret' = SmoothReturn(zeros_like(args.probs_new), args.probs_new,
                                       "DegradedZero")
              ELSE ret' = SmoothRaise(r.exc)
           /\ pc' = "done"
    /\ UNCHANGED <<heap, op, args, jitters, exc1, q_fix>>

(***************************************************************************)
(* a direct call of the jitter pass                                        *)
(***************************************************************************)
JitterCall ==
    /\ pc = "idle"
    /\ \E q \in QuantileArrays :
         /\ args' = [q |-> q, eps |-> Eps]
         /\ ret' = [raised |-> FALSE, q |-> jitter_nonincreasing(q, Eps)]
    /\ heap' = [heap EXCEPT !.input = args'.q]
    /\ op' = "jitter"
    /\ pc' = "done"
    /\ fits' = 0
    /\ jitters' = 0
    /\ exc1' = "none"
    /\ q_fix' = <<>>

(***************************************************************************)
(* a call of compute_energy_production_df                                  *)
(***************************************************************************)
Compute(a) ==
    /\ args' = a
    /\ ret' = compute_energy_production_df(a.df, a.heights, a.selected_power_curve,
                                           a.model_name, a.relevant_columns_only)

ComputeCall ==
    /\ pc = "idle"
    /\ \E a \in ComputeInputs : Compute(a)
    /\ heap' = [heap EXCEPT !.input =
                    input_after_compute(args'.df, args'.heights, args'.selected_power_curve,
                                        args'.model_name, args'.relevant_columns_only)]
    /\ op' = "compute"
    /\ pc' = "done"
    /\ fits' = 0
    /\ jitters' = 0
    /\ exc1' = "none"
    /\ q_fix' = <<>>

Aggregate(name, a, r) ==
    /\ heap' = [heap EXCEPT !.input =
                    input_after_compute(a.df, IntHeight(a.height), a.selected_power_curve,
                                        a.model_name, TRUE)]
    /\ op' = name
    /\ args' = a
    /\ ret' = r
    /\ pc' = "done"
    /\ fits' = 0
    /\ jitters' = 0
    /\ exc1' = "none"
    /\ q_fix' = <<>>

YearlyCall ==
    /\ pc = "idle"
    /\ \E a \in AggInputs :
        Aggregate("yearly", a,
                  calculate_yearly_energy_production(a.df, a.height, a.selected_power_curve,
                                                     a.model_name))

SummaryCall ==
    /\ pc = "idle"
    /\ \E a \in AggInputs :
        Aggregate("summary", a,
                  calculate_energy_production_summary(a.df, a.height, a.selected_power_curve,
                                                      a.model_name))

MonthlyCall ==
    /\ pc = "idle"
    /\ \E a \in AggInputs :
        Aggregate("monthly", a,
                  calculate_monthly_energy_production(a.df, a.height, a.selected_power_curve,
                                                      a.model_name))

\* PowerCurveManager._add_temporal_dimensions
NormalizeCall ==
    /\ pc = "idle"
    /\ \E a \in NormalizeInputs :
         /\ args' = a
         /\ ret' = add_temporal_dimensions(a.df, a.schema)
    /\ heap' = [heap EXCEPT !.input = args'.df]
    /\ op' = "normalize"
    /\ pc' = "done"
    /\ fits' = 0
    /\ jitters' = 0
    /\ exc1' = "none"
    /\ q_fix' = <<>>

(***************************************************************************)
(* a request to an endpoint of the v1 router                               *)
(***************************************************************************)
RequestCall ==
    /\ pc = "idle"
    /\ \E q \in RequestInputs :
         /\ args' = q
         /\ ret' = respond(q)
    /\ heap' = [heap EXCEPT !.input = args'.data]
    /\ op' = "request"
    /\ pc' = "done"
    /\ fits' = 0
    /\ jitters' = 0
    /\ exc1' = "none"
    /\ q_fix' = <<>>

\* the caller takes the result: nothing of a call is kept for the next one
Return ==
    /\ pc = "done"
    /\ heap' = [heap EXCEPT !.input = NoArgs]
    /\ pc' = "idle"
    /\ op' = "none"
    /\ args' = NoArgs
    /\ ret' = NoRet
    /\ fits' = 0
    /\ jitters' = 0
    /\ exc1' = "none"
    /\ q_fix' = <<>>

Next ==
    \/ SmoothCall
    \/ SmoothFit1
    \/ SmoothJitter
    \/ SmoothFit2
    \/ JitterCall
    \/ ComputeCall
    \/ NormalizeCall
    \/ YearlyCall
    \/ SummaryCall
    \/ MonthlyCall
    \/ RequestCall
    \/ Return

Spec == Init /\ [][Next]_vars

(***************************************************************************)
(* Claims                                                                  *)
(***************************************************************************)
SmoothDone == op = "smooth" /\ pc = "done"

\* C1: smooth never raises to its caller; every call ends as Smoothed (the
\* first fit succeeded), JitteredAndSmoothed (the first fit failed, the jitter
\* pass ran, the second fit succeeded) or DegradedZero (all-zero quantiles);
\* a call attempts the fit at most twice and the jitter pass at most once.
C1_SmoothThreeOutcomes ==
    op = "smooth" =>
        /\ fits <= 2
        /\ jitters <= 1
        /\ pc \in {"fit1", "jitter", "fit2", "done"}
        /\ pc = "done" =>
              /\ ~ret.raised
              /\ ret.outcome \in {"Smoothed", "JitteredAndSmoothed", "DegradedZero"}
              /\ ret.outcome = "Smoothed" => fits = 1 /\ jitters = 0 /\ exc1 = "none"
              /\ ret.outcome = "JitteredAndSmoothed" =>
                    fits = 2 /\ jitters = 1 /\ exc1 # "none"
              /\ ret.outcome = "DegradedZero" =>
                    /\ exc1 # "none"
                    /\ fits >= 1
                    /\ \A i \in 1..Len(ret.quantiles_new) : ret.quantiles_new[i] = 0

\* a call on fewer than two points has ended in the all-zero result
C1_Witness ==
    /\ SmoothDone
    /\ Len(args.quantiles) < 2
    /\ ret.outcome = "DegradedZero"

\* C2: on every path of smooth the two results have length M2 and probs_new
\* is the uniform grid over [0,1], whatever the input length and M1.
C2_SmoothShape ==
    SmoothDone =>
        /\ Len(ret.quantiles_new) = args.M2
        /\ Len(ret.probs_new) = args.M2
        /\ \A i \in 1..args.M2 : ret.probs_new[i] * (args.M2 - 1) = (i - 1) * PScale

\* a jittered retry has succeeded with M1 different from M2
C2_Witness ==
    /\ SmoothDone
    /\ ret.outcome = "JitteredAndSmoothed"
    /\ args.M1 # args.M2
    /\ Len(args.quantiles) # args.M2

ComputeDone == op = "compute" /\ pc = "done"

\* C4: whenever compute returns normally it returns the pair (table,
\* schema_name), also for an empty table, so that the aggregators can
\* destructure what it returns.
C4_ComputeReturnsPair ==
    (ComputeDone /\ ~ret.raised) =>
        /\ ret.shape = "pair"
        /\ unpack_pair(ret).err = NoError
        /\ unpack_pair(ret).prod_df_is_table

\* C5: compute called with an empty heights sequence fails with
\* InvalidArgument (ValueError) whatever the table holds, and produces no
\* output table.
C5_EmptyHeightsRaise ==
    (ComputeDone /\ HeightList(args.heights) = <<>>) =>
        /\ ret.raised
        /\ ret.err = Error("ValueError", "InvalidArgument")
        /\ ret.df = NoneDf

\* the two conditions of C6 on the arguments of the call
MissingWindspeedColumn(a) ==
    \E k \in 1..Len(HeightList(a.heights)) :
        WsCol(HeightList(a.heights)[k]) \notin columns(a.df)

SchemaColumnsMismatch(a) ==
    LET cfg == TEMPORAL_SCHEMAS[MODEL_CONFIG[a.model_name].schema]
        present == {Lower(c) : c \in columns(a.df)}
    IN  \/ \E c \in Elems(cfg.temporal_columns) \cup Elems(cfg.probability_columns) :
              c \notin present
        \/ /\ cfg.temporal_columns = <<>>
           /\ present \cap {"year", "month", "day", "hour", "time", "mohr"} # {}

C7_SchemaDispatch ==
    /\ Cardinality(SchemaNames) = 4
    /\ \A s \in SchemaNames : is_timeseries_schema(s) # is_quantile_schema(s)
    /\ \A m \in ModelNames : MODEL_CONFIG[m].schema \in SchemaNames
    /\ (ComputeDone /\ args.model_name \in ModelNames) =>
          /\ ret.err.name # "UnknownSchema"
          /\ ret.shape = "pair" =>
                ret.branch = IF is_timeseries_schema(ret.schema) THEN "timeseries"
                             ELSE "quantile"

\* compute has taken the timeseries branch for the month-hour schema
C7_Witness ==
    /\ ComputeDone
    /\ args.model_name = "wtk-timeseries"
    /\ ret.shape = "pair"
    /\ ret.branch = "timeseries"

NonEmptyColumnLists(s) ==
    {k \in {"temporal_columns", "probability_columns"} : TEMPORAL_SCHEMAS[s][k] # <<>>}

\* C8 as stated: every schema in the registry has exactly one of
\* temporal_columns / probability_columns non-empty; each of the four schemas
\* is the schema of one model, so it is stated on the schema a call selects.
C8_ExactlyOneNonEmpty ==
    (op = "compute" /\ args.model_name \in ModelNames) =>
        Cardinality(NonEmptyColumnLists(MODEL_CONFIG[args.model_name].schema)) = 1

\* C8 as amended: every schema in the registry has at least one of
\* temporal_columns / probability_columns non-empty; quantile_yearly has both
\* (year and probability), the other three have exactly one; so a table
\* computed under quantile_yearly is validated against both lists.
C8_AtLeastOneNonEmpty ==
    /\ \A s \in SchemaNames :
          Cardinality(NonEmptyColumnLists(s)) = IF s = "quantile_yearly" THEN 2 ELSE 1
    /\ (ComputeDone /\ ret.shape = "pair" /\ ret.schema = "quantile_yearly") =>
          {"year", "probability"} \subseteq columns_lower(args.df)

\* a table has been computed under the schema that has both lists non-empty
C8_Witness ==
    /\ ComputeDone
    /\ ret.shape = "pair"
    /\ Cardinality(NonEmptyColumnLists(ret.schema)) = 2

\* the groups of a quantile table: its years in ascending order, or the one
\* group 0 of a table without year
GroupsOf(a) ==
    IF has_year_dimension(MODEL_CONFIG[a.model_name].schema)
    THEN Ascending({a.df.rows[i]["year"] : i \in 1..Len(a.df.rows)})
    ELSE <<0>>
InGroup(r, y) == y = 0 \/ r["year"] = y
GroupRows(df, y) == SelectSeq(df.rows, LAMBDA r : InGroup(r, y))

\* C9: the bins of a group and height are the k-1 midpoints
\* m[i] = (q[i] + q[i+1]) / 2 of the quantile sequence q in
\* ascending-probability order, each with kw = power_curve(m[i]); without
\* smoothing q is the k input windspeeds (2, 4, 6, 8 give 3, 5, 7), with
\* smoothing q is the M2 values of smooth, so a group has M2 - 1 bins whatever
\* its number of rows.
C9_MidpointBins ==
    (ComputeDone /\ ret.shape = "pair" /\ ret.branch = "quantile") =>
        LET swi == use_swi_for(ret.schema)
            groups == GroupsOf(args)
            hs == HeightList(args.heights)
        IN  /\ \A g \in 1..Len(groups), k \in 1..Len(hs) :
                  LET sorted == SortRows(GroupRows(args.df, groups[g]), "probability")
                      ws == [i \in 1..Len(sorted) |-> sorted[i][WsCol(hs[k])]]
                      ps == [i \in 1..Len(sorted) |-> sorted[i]["probability"]]
                      q == IF swi
                           THEN estimation_quantiles_SWI(Floats(ws), Floats(ps),
                                                         M1Default, M2Default).quantiles_new
                           ELSE ws
                      out == GroupRows(ret.df, groups[g])
                  IN  /\ Len(out) = Len(q) - 1
                      /\ Len(out) = IF swi THEN M2Default - 1 ELSE Len(sorted) - 1
                      /\ \A i \in 1..Len(out) :
                            /\ 2 * out[i][WsCol(hs[k])] \in {q[i] + q[i + 1], q[i] + q[i + 1] - 1}
                            /\ out[i][KwCol(WsCol(hs[k]))] =
                                  windspeed_to_kw(args.selected_power_curve,
                                                  out[i][WsCol(hs[k])])
            /\ args.df = DocQuantiles =>
                  Column(ret.df, "windspeed_40m") = <<Ms(3), Ms(5), Ms(7)>>

\* a smoothed table with a one-row year and a two-row year has M2 - 1 bins for each
C9_Witness ==
    /\ ComputeDone
    /\ ret.shape = "pair"
    /\ use_swi_for(ret.schema)
    /\ Len(GroupRows(args.df, 2020)) = 1
    /\ Len(GroupRows(args.df, 2021)) = 2
    /\ Len(ret.df.rows) = 2 * (M2Default - 1)
    /\ \E i \in 1..Len(ret.df.rows) : ret.df.rows[i]["windspeed_40m_kw"] > 0

DistinctProbabilities(a) ==
    \A i, j \in 1..Len(a.df.rows) :
        (i # j /\ \A g \in Elems(GroupsOf(a)) : InGroup(a.df.rows[i], g) <=> InGroup(a.df.rows[j], g))
            => a.df.rows[i]["probability"] # a.df.rows[j]["probability"]

ComputeOn(a, rows) ==
    compute_energy_production_df(DataFrame(a.df.cols, rows), a.heights,
                                 a.selected_power_curve, a.model_name,
                                 a.relevant_columns_only)

\* C10: under a quantile schema the bins of a year are those of the table of
\* that year alone, each tagged with the year (a table without year is one
\* group and gets no year); when the probabilities within every group are
\* distinct, the result is the same for every order of the input rows:
\* exchanging any two rows leaves it unchanged, and the exchanged table is an
\* input with distinct probabilities again, so every reordering does.
C10_GroupsAndOrder ==
    (ComputeDone /\ ret.shape = "pair" /\ ret.branch = "quantile") =>
        LET groups == GroupsOf(args)
            n == Len(args.df.rows)
        IN  /\ has_year_dimension(ret.schema) =>
                  /\ \A i \in 1..Len(ret.df.rows) :
                        ret.df.rows[i]["year"] \in Elems(groups)
                  /\ \A g \in 1..Len(groups) :
                        GroupRows(ret.df, groups[g]) =
                            ComputeOn(args, GroupRows(args.df, groups[g])).df.rows
            /\ ~has_year_dimension(ret.schema) => "year" \notin columns(ret.df)
            /\ DistinctProbabilities(args) =>
                  \A i, j \in 1..n :
                      i < j => ComputeOn(args, [args.df.rows EXCEPT ![i] = args.df.rows[j],
                                                                    ![j] = args.df.rows[i]]) = ret

\* two years, the rows of one of them given in descending probability
C10_Witness ==
    /\ ComputeDone
    /\ ret.shape = "pair"
    /\ ret.schema = "quantile_yearly"
    /\ Len(args.df.rows) = 3
    /\ DistinctProbabilities(args)
    /\ args.df.rows[1]["year"] = 2020
    /\ args.df.rows[2]["year"] = 2021
    /\ args.df.rows[3]["year"] = 2020
    /\ args.df.rows[1]["probability"] > args.df.rows[3]["probability"]
    /\ args.df.rows[1]["windspeed_40m"] > args.df.rows[3]["windspeed_40m"]

(***************************************************************************)
(* The columns of the pruned table                                         *)
(***************************************************************************)
RequestedWs(a) == [k \in 1..Len(HeightList(a.heights)) |-> WsCol(HeightList(a.heights)[k])]
\* per height, in request order, its windspeed column followed by its kw column
PairsPerHeight(ws_cols) ==
    [i \in 1..(2 * Len(ws_cols)) |->
        IF i % 2 = 1 THEN ws_cols[(i + 1) \div 2] ELSE KwCol(ws_cols[i \div 2])]
\* all windspeed columns, then all kw columns
WsThenKw(ws_cols) == ws_cols \o [k \in 1..Len(ws_cols) |-> KwCol(ws_cols[k])]
\* the temporal columns of a result: those the normalized table of a
\* timeseries carries, the year of a yearly quantile table, none otherwise
TemporalPart(a, r) ==
    IF r.branch = "timeseries"
    THEN SelectSeq(<<"time", "year", "month", "day", "hour", "mohr">>,
                   LAMBDA c : c \in columns(add_temporal_dimensions(a.df, r.schema).df))
    ELSE IF has_year_dimension(r.schema) THEN <<"year">> ELSE <<>>
Pruned == ComputeDone /\ ret.shape = "pair" /\ args.relevant_columns_only

\* C11 as stated: with relevant_columns_only the columns of the result are the
\* temporal columns followed, for each requested height in request order, by
\* its windspeed column and its kw column, under timeseries and quantile
\* schemas alike.
C11_OneOrderingRule ==
    Pruned => ret.df.cols = TemporalPart(args, ret) \o PairsPerHeight(RequestedWs(args))

\* C11 as amended: with relevant_columns_only the result has the temporal
\* columns first and then only the windspeed and kw columns of the requested
\* heights; under a quantile schema these come height by height (windspeed,
\* kw), under a timeseries schema all windspeed columns come before all kw
\* columns, so the two orders agree only for a single height.
C11_RelevantColumns ==
    Pruned =>
        LET ws_cols == RequestedWs(args)
            temporal == TemporalPart(args, ret)
        IN  /\ ret.df.cols = temporal \o (IF ret.branch = "timeseries"
                                          THEN WsThenKw(ws_cols)
                                          ELSE PairsPerHeight(ws_cols))
            /\ \A i \in 1..Len(ret.df.rows) : DOMAIN ret.df.rows[i] = Elems(ret.df.cols)
            /\ Len(ws_cols) = 1 => ret.df.cols = temporal \o PairsPerHeight(ws_cols)

\* a pruned timeseries result for two heights
C11_Witness ==
    /\ Pruned
    /\ ret.branch = "timeseries"
    /\ Len(RequestedWs(args)) = 2
    /\ ret.df.cols = <<"time", "year", "month", "day", "hour", "windspeed_40m",
                       "windspeed_100m", "windspeed_40m_kw", "windspeed_100m_kw">>

(***************************************************************************)
(* The aggregations                                                        *)
(***************************************************************************)
AggDone(name) == op = name /\ pc = "done"
\* the table compute hands to an aggregation
Prod(a) ==
    compute_energy_production_df(a.df, IntHeight(a.height), a.selected_power_curve,
                                 a.model_name, TRUE)
\* the years of a computed table: its distinct non-null years, or the one
\* null year of a table of bins without year
YearsOf(p) ==
    IF is_quantile_schema(p.schema) /\ ~has_year_dimension(p.schema)
    THEN (IF Len(p.df.rows) > 0 THEN {NoYear} ELSE {})
    ELSE {p.df.rows[i]["year"] : i \in 1..Len(p.df.rows)} \ {NoYear}
RowsOfYear(p, y) ==
    IF y = NoYear THEN p.df.rows ELSE SelectSeq(p.df.rows, LAMBDA r : r["year"] = y)

\* C12: the yearly table has one row per distinct year, with avg_windspeed the
\* mean windspeed of the year's rows and kwh = sum(kw) * 30 for mohr_encoded,
\* sum(kw) for datetime_full and mean(kw) * 8760 for a quantile schema; the
\* 8760 hours of a year at 50 kW give 438000 kWh, 288 month-hour rows at 10 kW
\* give 86400 kWh.
C12_YearlyAggregation ==
    ((AggDone("yearly") \/ AggDone("summary")) /\ ~ret.raised) =>
        LET p == Prod(args)
            rows == ret.yearly.rows
            ws_column == WsCol(args.height)
            encoding == TEMPORAL_SCHEMAS[p.schema].encoding
        IN  /\ {rows[i]["year"] : i \in 1..Len(rows)} = YearsOf(p)
            /\ Len(rows) = Cardinality(YearsOf(p))
            /\ \A i \in 1..Len(rows) :
                  LET g == RowsOfYear(p, rows[i]["year"])
                      ws == [k \in 1..Len(g) |-> g[k][ws_column]]
                      kw == [k \in 1..Len(g) |-> g[k][KwCol(ws_column)]]
                  IN  /\ rows[i][AvgWsCol] = Mean(ws)
                      /\ rows[i][KwhCol] =
                            CASE encoding = "mohr_encoded" -> SumSeq(kw) * 30 * KwhScale
                              [] encoding = "datetime_full" -> SumSeq(kw) * KwhScale
                              [] OTHER -> ((SumSeq(kw) * KwhScale) \div Len(kw)) * 8760
            /\ args.df = DocHourlyYear =>
                  rows = <<YearlyRow(2021, 1500000, 438000 * KwhScale)>>
            /\ args.df = DocMohrYear =>
                  rows = <<YearlyRow(2020, 1500000, 86400 * KwhScale)>>

\* the yearly dict of 288 month-hour rows at 10 kW
C12_Witness ==
    /\ AggDone("yearly")
    /\ ~ret.raised
    /\ args.df = DocMohrYear
    /\ ret.result["2020"].kwh = 86400

AtemporalQuantile(a) ==
    /\ a.model_name \in ModelNames
    /\ is_quantile_schema(MODEL_CONFIG[a.model_name].schema)
    /\ ~has_year_dimension(MODEL_CONFIG[a.model_name].schema)
SummaryKeys == {"Lowest year", "Average year", "Highest year"}
\* what C13 says of the results of a table of bins without year
GlobalOnly ==
    /\ AggDone("yearly") => DOMAIN ret.result = {"Global"}
    /\ AggDone("summary") =>
          /\ DOMAIN ret.result = SummaryKeys
          /\ \A k \in SummaryKeys :
                /\ ret.result[k].year = NoYear
                /\ ret.result[k] = ret.result["Average year"]

SummaryEntry(row) ==
    SummaryStat(row["year"], Format2f(row[AvgWsCol]), RoundKwh(row[KwhCol]))

\* C14: the yearly rows are in ascending order of average wind speed; the
\* summary's "Lowest year" is a year of minimal and its "Highest year" a year
\* of maximal average wind speed, whatever their kWh; "Average year" has no
\* year and the means of avg_windspeed and of kwh over all yearly rows; so
\* Lowest <= Average <= Highest in average wind speed.
C14_SummaryFromYearlyRows ==
    ((AggDone("yearly") \/ AggDone("summary")) /\ ~ret.raised) =>
        LET rows == ret.yearly.rows
            avgs == [i \in 1..Len(rows) |-> rows[i][AvgWsCol]]
            s == ret.result
        IN  /\ \A i, j \in 1..Len(rows) : i < j => avgs[i] <= avgs[j]
            /\ (AggDone("summary") /\ Len(rows) > 0) =>
                  /\ \E i \in 1..Len(rows) :
                        /\ \A j \in 1..Len(rows) : avgs[i] <= avgs[j]
                        /\ s["Lowest year"] = SummaryEntry(rows[i])
                  /\ \E i \in 1..Len(rows) :
                        /\ \A j \in 1..Len(rows) : avgs[i] >= avgs[j]
                        /\ s["Highest year"] = SummaryEntry(rows[i])
                  /\ s["Average year"] =
                        SummaryStat(NoYear, Format2f(Mean(avgs)),
                                    RoundKwh(Mean([i \in 1..Len(rows) |-> rows[i][KwhCol]])))
                  /\ s["Lowest year"].avg_ws <= s["Average year"].avg_ws
                  /\ s["Average year"].avg_ws <= s["Highest year"].avg_ws

\* the year of the lower average wind speed produced more energy
C14_Witness ==
    /\ AggDone("summary")
    /\ ~ret.raised
    /\ Len(ret.yearly.rows) = 2
    /\ ret.result["Lowest year"].year # ret.result["Highest year"].year
    /\ ret.result["Lowest year"].avg_ws < ret.result["Average year"].avg_ws
    /\ ret.result["Average year"].avg_ws < ret.result["Highest year"].avg_ws
    /\ ret.result["Lowest year"].kwh > ret.result["Highest year"].kwh

\* the distinct years of the table compute hands to the monthly aggregation
DistinctYears(p) ==
    IF "year" \in columns(p.df)
    THEN {p.df.rows[i]["year"] : i \in 1..Len(p.df.rows)} \ {NoYear}
    ELSE {}
MonthlyFails(name) == ret.raised /\ ret.err = Error("ValueError", name) /\ ret.result = <<>>

\* C15: when compute accepts the table, the monthly aggregation fails with
\* UnsupportedOperation under every quantile schema, and with NoData under a
\* timeseries schema when the computed table has no distinct year; no monthly
\* result is returned.
C15_MonthlyFailures ==
    (AggDone("monthly") /\ args.model_name \in ModelNames /\ ~Prod(args).raised) =>
        LET schema == MODEL_CONFIG[args.model_name].schema
        IN  /\ is_quantile_schema(schema) => MonthlyFails("UnsupportedOperation")
            /\ (is_timeseries_schema(schema) /\ DistinctYears(Prod(args)) = {}) =>
                  MonthlyFails("NoData")

\* the same for the calls whose table compute returned with its schema and
\* with a year column
C15_MonthlyFailuresOfPairs ==
    (AggDone("monthly") /\ Prod(args).shape = "pair") =>
        /\ is_quantile_schema(Prod(args).schema) => MonthlyFails("UnsupportedOperation")
        /\ (is_timeseries_schema(Prod(args).schema) /\ "year" \in columns(Prod(args).df)
               /\ DistinctYears(Prod(args)) = {}) => MonthlyFails("NoData")

C15_NoDataReached ==
    AggDone("monthly") /\ Len(args.df.rows) = 2 /\ MonthlyFails("NoData")

\* C16: under a timeseries schema the monthly kWh of month m is the sum of kw
\* over all rows of month m, of all years, times 30 / n_years for mohr_encoded
\* and divided by n_years for datetime_full, n_years being the number of
\* distinct years of the whole table; two years of the same hours with a
\* January kW sum of 1000 each give 1000 for January.
C16_MonthlyScaling ==
    (AggDone("monthly") /\ ~ret.raised) =>
        LET p == Prod(args)
            n_years == Cardinality(DistinctYears(p))
            kw_column == KwCol(WsCol(args.height))
            encoding == TEMPORAL_SCHEMAS[p.schema].encoding
            kw_of(m) == LET g == SelectSeq(p.df.rows, LAMBDA r : r["month"] = m)
                        IN  [i \in 1..Len(g) |-> g[i][kw_column]]
        IN  /\ is_timeseries_schema(p.schema)
            /\ n_years > 0
            /\ DOMAIN ret.result =
                  {month_abbr[p.df.rows[i]["month"]] : i \in 1..Len(p.df.rows)}
            /\ \A m \in 1..12 :
                  month_abbr[m] \in DOMAIN ret.result =>
                      ret.result[month_abbr[m]].kwh =
                          RoundKwh(IF encoding = "mohr_encoded"
                                   THEN (SumSeq(kw_of(m)) * 30 * KwhScale) \div n_years
                                   ELSE (SumSeq(kw_of(m)) * KwhScale) \div n_years)
            /\ args.df = DocTwoYears =>
                  /\ n_years = 2
                  /\ SumSeq(kw_of(1)) = 2000
                  /\ ret.result = [k \in {"Jan"} |-> Stat(750, 1000)]

\* two years with a January kW sum of 1000 each
C16_Witness ==
    /\ AggDone("monthly")
    /\ ~ret.raised
    /\ args.df = DocTwoYears
    /\ ret.result["Jan"].kwh = 1000

(***************************************************************************)
(* normalize                                                               *)
(***************************************************************************)
NormalizeDone == op = "normalize" /\ pc = "done"

\* C17: under mohr_encoded, a table with a mohr column and without month and
\* hour gets month = mohr // 100 and hour = mohr % 100 in every row, so a row
\* with mohr = month * 100 + hour (month in 1..12, hour in 0..23) gets back
\* (month, hour); the other columns, year and windspeed among them, are
\* unchanged.
C17_MohrDecoding ==
    (NormalizeDone /\ args.schema = "aggregated_mohr" /\ "mohr" \in columns(args.df)
        /\ "month" \notin columns(args.df) /\ "hour" \notin columns(args.df)) =>
        /\ ret.err = NoError
        /\ Len(ret.df.rows) = Len(args.df.rows)
        /\ columns(ret.df) = columns(args.df) \cup {"month", "hour"}
        /\ \A i \in 1..Len(args.df.rows) :
              LET in == args.df.rows[i]
                  out == ret.df.rows[i]
              IN  /\ out["month"] = in["mohr"] \div 100
                  /\ out["hour"] = in["mohr"] % 100
                  /\ \A c \in columns(args.df) : out[c] = in[c]
                  /\ \A m \in 1..12, h \in 0..23 :
                        in["mohr"] = m * 100 + h => (out["month"] = m /\ out["hour"] = h)

\* the last hour of December decoded
C17_Witness ==
    /\ NormalizeDone
    /\ args.df = OneMohrRow(12, 23)
    /\ ret.err = NoError
    /\ ret.df.rows[1]["month"] = 12
    /\ ret.df.rows[1]["hour"] = 23
    /\ ret.df.rows[1]["year"] = 2020

\* C18: under datetime_full a time value that is no timestamp does not make
\* normalize fail: the row gets a null time, normalization completes, the
\* table gets year, month, day and hour and keeps the parsed time column.
C18_UnparsableTimeIsNotFatal ==
    (NormalizeDone /\ args.schema = "full_hourly" /\ "time" \in columns(args.df)) =>
        /\ ret.err = NoError
        /\ {"time", "year", "month", "day", "hour"} \subseteq columns(ret.df)
        /\ \A i \in 1..Len(args.df.rows) :
              ret.df.rows[i]["time"] = to_datetime(args.df.rows[i]["time"])

\* a table with a time value that is no timestamp has been normalized
C18_UnparsableTimeReached ==
    /\ NormalizeDone
    /\ args.schema = "full_hourly"
    /\ Len(args.df.rows) = 2
    /\ to_datetime(args.df.rows[1]["time"]) # NaT
    /\ to_datetime(args.df.rows[2]["time"]) = NaT
    /\ ret.err = Error("ValueError", "IntCastingNaNError")

(***************************************************************************)
(* What a call leaves behind                                               *)
(***************************************************************************)
\* C19: no operation modifies the caller's input, the schema registry, the
\* model configuration or the loaded power curves: during and after every
\* call they are what they were before it.
C19_NothingModified ==
    /\ heap.TEMPORAL_SCHEMAS = TEMPORAL_SCHEMAS
    /\ heap.MODEL_CONFIG = MODEL_CONFIG
    /\ heap.power_curves = power_curves
    /\ op \in {"compute", "normalize", "yearly", "summary", "monthly"} => heap.input = args.df
    /\ op = "smooth" => heap.input = [quantiles |-> args.quantiles, probs |-> args.probs]
    /\ op = "jitter" => heap.input = args.q
    /\ op = "none" => heap.input = NoArgs

\* compute has added kW columns to a table that normalization handed on as it
\* came, and the caller's table has none of them
C19_Witness ==
    /\ ComputeDone
    /\ ret.shape = "pair"
    /\ ret.branch = "timeseries"
    /\ normalized_is_input(args.df, ret.schema)
    /\ "windspeed_40m_kw" \in columns(ret.df)
    /\ "windspeed_40m_kw" \notin columns(heap.input)

(***************************************************************************)
(* The distribution of a group                                             *)
(***************************************************************************)
QuantileDone == ComputeDone /\ ret.shape = "pair" /\ ret.branch = "quantile"
\* the distribution of group g of the input for the height's column
GroupDistribution(a, g, ws_col) ==
    distribution(sort_values(DataFrame(a.df.cols, GroupRows(a.df, g)), "probability"), ws_col)
Count(s, v) == Cardinality({i \in 1..Len(s) : s[i] = v})
InputProbabilities(a, g) ==
    LET rows == GroupRows(a.df, g) IN [i \in 1..Len(rows) |-> rows[i]["probability"]]

\* C20 as stated: the probability sequence of the distribution of every group
\* is strictly increasing, duplicates having been resolved by the jitter.
C20_ProbabilitiesStrictlyIncreasing ==
    QuantileDone =>
        \A g \in Elems(GroupsOf(args)), ws_col \in Elems(RequestedWs(args)) :
            LET p == GroupDistribution(args, g, ws_col).probs
            IN  \A i \in 1..(Len(p) - 1) : p[i] < p[i + 1]

\* C20 as amended: the probability sequence of the distribution of every group
\* is the group's probabilities in ascending order, duplicates kept as they
\* are: it is non-decreasing, and strictly increasing only when the group's
\* probabilities are distinct.  No jitter is applied to probabilities; the
\* bins returned are those of this distribution.
C20_ProbabilitiesSortedOnly ==
    QuantileDone =>
        \A g \in Elems(GroupsOf(args)), ws_col \in Elems(RequestedWs(args)) :
            LET d == GroupDistribution(args, g, ws_col)
                given == InputProbabilities(args, g)
                q_est == IF use_swi_for(ret.schema)
                         THEN estimation_quantiles_SWI(Floats(d.quants), Floats(d.probs),
                                                       M1Default, M2Default).quantiles_new
                         ELSE d.quants
                out == GroupRows(ret.df, g)
            IN  /\ \A i \in 1..(Len(d.probs) - 1) : d.probs[i] <= d.probs[i + 1]
                /\ \A v \in Probabilities : Count(d.probs, v) = Count(given, v)
                /\ [i \in 1..Len(out) |-> out[i][ws_col]] = midpoints(q_est)

\* a group with the same probability twice has been smoothed and binned
C20_Witness ==
    /\ QuantileDone
    /\ use_swi_for(ret.schema)
    /\ Len(args.df.rows) = 2
    /\ LET d == GroupDistribution(args, 2020, "windspeed_40m")
       IN  /\ d.probs = <<0, 0>>
           /\ d.quants = <<Ms(4), Ms(8)>>
           /\ estimation_quantiles_SWI(Floats(d.quants), Floats(d.probs),
                                       M1Default, M2Default).outcome = "Smoothed"


RequestDone == op = "request" /\ pc = "done"

\* the parameters of a request other than its period pass their validators
OtherParametersValid ==
    /\ args.model \in ModelNames
    /\ validate_lat(args.model, args.lat) = "ok"
    /\ validate_lng(args.model, args.lng) = "ok"
    /\ validate_height(args.model, args.height) = "ok"
    /\ args.source \in {"None", MODEL_CONFIG[args.model].source}
    /\ args.endpoint = "production" =>
          validate_powercurve(turbine_or(args.turbine, args.powercurve)) = "ok"

\* the periods the schema of the model of the request lists for a data type
ListedPeriods(data_type) ==
    IF args.model \in ModelNames
    THEN Elems(period_type[MODEL_CONFIG[args.model].schema][data_type])
    ELSE {}

\* C21: a windspeed or production request is answered with 400, and no data is
\* fetched for it, exactly when its period is not among the periods that the
\* schema of its model lists for that data type (its other parameters being
\* valid); ensemble-quantiles production takes period all only, and an unknown
\* period is answered with 400 for every model
C21_PeriodRejectedBeforeFetch ==
    (RequestDone /\ args.endpoint \in {"windspeed", "production"}) =>
        /\ args.period \notin ListedPeriods(args.endpoint) =>
              (ret.status = 400 /\ ~ret.fetched)
        /\ OtherParametersValid =>
              ((ret.status = 400 /\ ~ret.fetched)
                  <=> args.period \notin ListedPeriods(args.endpoint))
        /\ (OtherParametersValid /\ args.period \in ListedPeriods(args.endpoint)) =>
              ret.fetched
        /\ (args.endpoint = "production" /\ args.model = "ensemble-quantiles"
            /\ args.period # "all") => ret.status = 400
        /\ args.period = "invalid" => ret.status = 400
        /\ ret.status = 400 => ~ret.fetched

\* ensemble-quantiles production of period full, all else valid, was refused
C21_Witness ==
    /\ RequestDone
    /\ args.endpoint = "production"
    /\ args.model = "ensemble-quantiles"
    /\ args.period = "full"
    /\ OtherParametersValid
    /\ ~args.data[1].none
    /\ ret.status = 400
    /\ ~ret.fetched


\* C22: a production response for period full holds the summary and, as
\* energy_production, the kWh of the summary's average year; it holds the
\* yearly production exactly when the schema lists annual and the monthly
\* production exactly when the schema lists monthly, and the monthly
\* aggregation is not invoked for a model whose schema does not list monthly
C22_FullResponseFollowsSchema ==
    (RequestDone /\ args.endpoint = "production") =>
        /\ (args.period = "full" /\ ret.kind = "return") =>
              /\ {"summary_avg_energy_production", "energy_production"} \subseteq DOMAIN ret.body
              /\ ret.body["energy_production"]
                    = ret.body["summary_avg_energy_production"]["Average year"].kwh
              /\ ret.body["summary_avg_energy_production"]
                    = calculate_energy_production_summary(
                          args.data[1], args.height,
                          turbine_or(args.turbine, args.powercurve), args.model).result
              /\ "yearly_avg_energy_production" \in DOMAIN ret.body
                    <=> "annual" \in ListedPeriods("production")
              /\ "monthly_avg_energy_production" \in DOMAIN ret.body
                    <=> "monthly" \in ListedPeriods("production")
        /\ "monthly" \in ret.calls => "monthly" \in ListedPeriods("production")
        /\ (args.period = "full" /\ "yearly" \in ret.calls) =>
              "annual" \in ListedPeriods("production")

\* a full response of era5-quantiles: yearly production and no monthly one
C22_Witness ==
    /\ RequestDone
    /\ args.endpoint = "production"
    /\ args.model = "era5-quantiles"
    /\ args.period = "full"
    /\ ret.status = 200
    /\ DOMAIN ret.body = {"summary_avg_energy_production", "energy_production",
                          "yearly_avg_energy_production"}
    /\ ret.calls = {"summary", "yearly"}

\* a full response of wtk-timeseries holds the monthly production too
C22_WitnessMonthly ==
    /\ RequestDone
    /\ args.endpoint = "production"
    /\ args.model = "wtk-timeseries"
    /\ args.period = "full"
    /\ ret.status = 200
    /\ "monthly_avg_energy_production" \in DOMAIN ret.body
    /\ "monthly" \in ret.calls


\* C23: every endpoint answers a model name that is no key of MODEL_CONFIG
\* with 400, whatever the other parameters
C23_UnknownModelIs400 ==
    (RequestDone /\ args.model \notin ModelNames) => ret.status = 400

\* C24: a timeseries download of era5-timeseries with period hourly or monthly
\* and source s3 passes the validation of the period and reaches the fetch
C24_ExportPeriodReachesFetch ==
    (RequestDone /\ args.endpoint = "timeseries" /\ args.model = "era5-timeseries"
     /\ args.period \in Elems(period_type["full_hourly"].timeseries_export)
     /\ args.source = "s3") =>
        (ret.fetched /\ ret.status # 400)


\* C25: a call of smooth that ends with the all-zero fallback had a failed
\* first fit; after a ValueError or ZeroDivisionError the jitter pass and a
\* failed second fit came before the zeros, after any other exception (the
\* IndexError of fewer than two points) the zeros are returned at once, with
\* no jitter pass and no second fit
C25_ZeroAfterRetryOrAtOnce ==
    (SmoothDone /\ ret.outcome = "DegradedZero") =>
        /\ exc1 # "none"
        /\ ~run_cubic(args.quantiles, args.probs, args.probs_new, args.M1).ok
        /\ IF exc1 \in {"ValueError", "ZeroDivisionError"}
           THEN /\ fits = 2
                /\ jitters = 1
                /\ q_fix = jitter_nonincreasing(args.quantiles, Eps)
                /\ ~run_cubic(q_fix, args.probs, args.probs_new, args.M1).ok
           ELSE /\ fits = 1
                /\ jitters = 0
                /\ q_fix = <<>>
        /\ Len(args.quantiles) < 2 => (exc1 = "IndexError" /\ jitters = 0)

\* the zeros of a call with fewer than two points, returned without a retry
C25_Witness ==
    /\ SmoothDone
    /\ ret.outcome = "DegradedZero"
    /\ Len(args.quantiles) < 2
    /\ fits = 1
    /\ jitters = 0

\* C25 as stated: the all-zero fallback is returned only after the jitter pass
\* and a failed second fit, for every kind of failure of the first fit
C25_ZeroOnlyAfterRetry ==
    (SmoothDone /\ ret.outcome = "DegradedZero") => (fits = 2 /\ jitters = 1)

\* the fold q'[1] = q[1], q'[i] = max(q[i], q'[i-1] + eps)
RECURSIVE MaxFold(_, _)
MaxFold(vs, eps) ==
    IF Len(vs) <= 1 THEN vs
    ELSE LET front == MaxFold(SubSeq(vs, 1, Len(vs) - 1), eps)
             prev == front[Len(front)]
             last == vs[Len(vs)]
         IN  Append(front, IF last > prev + eps THEN last ELSE prev + eps)

\* the fold q'[1] = q[1], q'[i] = q[i] if q[i] > q'[i-1], else q'[i-1] + eps
RECURSIVE StepFold(_, _)
StepFold(vs, eps) ==
    IF Len(vs) <= 1 THEN vs
    ELSE LET front == StepFold(SubSeq(vs, 1, Len(vs) - 1), eps)
             prev == front[Len(front)]
             last == vs[Len(vs)]
         IN  Append(front, IF last > prev THEN last ELSE prev + eps)

JitterDone == op = "jitter" /\ pc = "done"

WellFormedInput ==
    /\ AllFinite(args.quantiles)
    /\ AllFinite(args.probs)
    /\ Len(args.quantiles) = Len(args.probs)
    /\ Len(args.quantiles) >= 2

UnroundedMonthly(p, height, m) ==
    LET group == GroupOf(p, "month", m)
    IN  monthly_kwh(TEMPORAL_SCHEMAS[MODEL_CONFIG[args.model_name].schema].encoding,
                    ColumnOf(group, KwCol(WsCol(height))), nunique_years(p, group))

\* the unrounded kWh of the average year: the mean of the yearly table
UnroundedAverageYear(y) == Mean(ColumnOf(y.df.rows, KwhCol))

EveryRowHasYear(p) == \A i \in 1..Len(p.rows) : ~isna(p.rows[i]["year"])

\* C28: on a table of a time series in which every row has a year and a
\* month, the unrounded monthly kWh of all months add up to the unrounded kWh
\* of the average year of the summary, the mean of the yearly kWh, under both
\* encodings and however the rows fall into years and months
C28_MonthsAddUpToAverageYear ==
    (AggDone("monthly") /\ ~ret.raised /\ EveryRowHasYear(ret.yearly)) =>
        LET p == ret.yearly
            months == GroupKeys(p, "month")
            y == prepare_yearly_production_df(args.df, args.height,
                                              args.selected_power_curve, args.model_name)
        IN  /\ y.err = NoError
            /\ \A k \in 1..Len(months) :
                  ret.result[month_abbr[months[k]]].kwh
                      = RoundKwh(UnroundedMonthly(p, args.height, months[k]))
            /\ SumSeq([k \in 1..Len(months) |-> UnroundedMonthly(p, args.height, months[k])])
                  = UnroundedAverageYear(y)
            /\ calculate_energy_production_summary(
                   args.df, args.height, args.selected_power_curve,
                   args.model_name).result["Average year"].kwh
                  = RoundKwh(UnroundedAverageYear(y))

\* two years and two months with energy in the table
C28_Witness ==
    /\ AggDone("monthly")
    /\ ~ret.raised
    /\ EveryRowHasYear(ret.yearly)
    /\ Cardinality(DOMAIN ret.result) = 2
    /\ nunique_years(ret.yearly, ret.yearly.rows) = 2
    /\ \A k \in DOMAIN ret.result : ret.result[k].kwh > 0

\* the same for the month-hour encoding: twelve months of one year
C28_WitnessMohr ==
    /\ AggDone("monthly")
    /\ ~ret.raised
    /\ args.model_name = "wtk-timeseries"
    /\ Cardinality(DOMAIN ret.result) = 12
    /\ \A k \in DOMAIN ret.result : ret.result[k].kwh > 0


\* the probabilities of a table respaced: 0 is the table as it is, the others
\* are strictly increasing maps, which keep the order and the ties of the rows
Respace(k, p) ==
    CASE k = 0 -> p
      [] k = 1 -> p \div 2
      [] k = 2 -> p + 1
      [] OTHER -> p * p + 2 * p
Respacings == 1..3

Respaced(df, k) ==
    IF "probability" \notin columns(df) THEN df
    ELSE SetColumn(df, "probability",
                   [i \in 1..Len(df.rows) |-> Respace(k, df.rows[i]["probability"])])

\* the probabilities of the table are multiples of 2: halving keeps them apart
EvenProbabilities(df) ==
    /\ "probability" \in columns(df)
    /\ \A i \in 1..Len(df.rows) : df.rows[i]["probability"] % 2 = 0

Atemporal(model_name) ==
    /\ model_name \in ModelNames
    /\ MODEL_CONFIG[model_name].schema = "quantile_atemporal"
    /\ ~use_swi_for(MODEL_CONFIG[model_name].schema)

\* C29: on the quantile path without smoothing (the atemporal schema) the
\* table of compute, with its midpoints and kW, and the yearly aggregation are
\* the same for two tables of the same wind speeds and the same order of the
\* rows by probability, whatever the values and the spacing of the
\* probabilities
C29_ProbabilityOnlyOrders ==
    /\ (ComputeDone /\ Atemporal(args.model_name) /\ EvenProbabilities(args.df)) =>
          \A k \in Respacings :
              compute_energy_production_df(Respaced(args.df, k), args.heights,
                                           args.selected_power_curve, args.model_name,
                                           args.relevant_columns_only) = ret
    /\ (AggDone("yearly") /\ Atemporal(args.model_name) /\ EvenProbabilities(args.df)) =>
          \A k \in Respacings :
              LET other == calculate_yearly_energy_production(
                               Respaced(args.df, k), args.height,
                               args.selected_power_curve, args.model_name)
              IN  /\ other.raised = ret.raised
                  /\ other.err = ret.err
                  /\ other.result = ret.result
                  /\ other.yearly = ret.yearly

\* bins computed from rows that the probabilities put into another order than
\* the table has them
C29_Witness ==
    /\ ComputeDone
    /\ Atemporal(args.model_name)
    /\ EvenProbabilities(args.df)
    /\ ret.shape = "pair"
    /\ ret.branch = "quantile"
    /\ Len(ret.df.rows) >= 2
    /\ sort_values(args.df, "probability") # args.df
    /\ \E k \in Respacings : Respaced(args.df, k) # args.df

\* the yearly aggregation of a table of bins without year
C29_WitnessYearly ==
    /\ AggDone("yearly")
    /\ Atemporal(args.model_name)
    /\ EvenProbabilities(args.df)
    /\ ~ret.raised
    /\ "Global" \in DOMAIN ret.result
    /\ ret.result["Global"].kwh > 0


\* the periods get_timeseries_energy_core is called with: it validates none
EnergyPeriods == {"hourly", "monthly", "all"}

\* C30: the columns that the energy export takes from the table of compute
\* (time, or year and month, and for each height the windspeed and the energy
\* column) are columns of that table for a schema of a time series, and the
\* export has a result for every period it accepts: it does not end with a
\* missing column or an unset result
C30_EnergyExportNeverFails ==
    (ComputeDone /\ args.model_name \in ModelNames
     /\ is_timeseries_schema(MODEL_CONFIG[args.model_name].schema)
     /\ ~args.relevant_columns_only /\ ~ret.raised /\ ret.shape = "pair") =>
        /\ export_columns(HeightList(args.heights)) \subseteq columns(ret.df)
        /\ \A period \in EnergyPeriods :
              energy_export(unpacked(ret), HeightList(args.heights), period).kind = "return"

====
